---- MODULE Spec2Model ----
(***************************************************************************)
(* Chromadeck slide editor: the Redux presentation slice (Document Store), *)
(* the SlideCanvas component (live Fabric scene, debounced saves, delayed  *)
(* timers, asynchronous image inserts) and the handlers of SlideList,      *)
(* Toolbar and Home that dispatch into the store.                          *)
(*                                                                         *)
(* Time is counted in ticks of 100 ms.  Source indices are 0-based and are *)
(* kept 0-based in the store (currentSlideIndex, findIndex); the TLA+      *)
(* sequence position of source index i is i + 1.                           *)
(***************************************************************************)
EXTENDS Integers, Sequences, FiniteSets, TLC

VARIABLES store, now, nextId, last, used, canvas, timers, images, mouseTool, writes,
          currentShapeFormat

vars == <<store, now, nextId, last, used, canvas, timers, images, mouseTool, writes,
          currentShapeFormat>>

(***************************************************************************)
(* Bounds of the model.                                                    *)
(***************************************************************************)
MaxSlides == 3
MaxClock == 1
MaxGen == 2
MaxPatches == 1
MaxLoads == 1
MaxEvents == 4
MaxDeck == 2
MaxObjects == 2
MaxTimers == 3
MaxImages == 1

(***************************************************************************)
(* JavaScript values.                                                      *)
(***************************************************************************)
NULL == "null"
NoTime == -1
NoThumbnail == <<>>

Falsy(v) == v = NULL \/ v = ""

Min(a, b) == IF a < b THEN a ELSE b
Max(a, b) == IF a > b THEN a ELSE b

\* `slide-${timestamp}-${Math.random()...}`: the random suffix is modelled by
\* a counter, the n-th generated id is GenIds[n].
GenIds == <<"slide-1", "slide-2", "slide-3", "slide-4", "slide-5", "slide-6", "slide-7", "slide-8">>

\* `Slide ${state.slides.length + 1}`
\* A name is the sequence of the pieces it is concatenated from; '' is <<>>.
DefaultSlideName(n) == << <<"Slide 1">>, <<"Slide 2">>, <<"Slide 3">>, <<"Slide 4">>, <<"Slide 5">>, <<"Slide 6">>, <<"Slide 7">>, <<"Slide 8">> >>[n]

\* JSON.stringify({ objects: [], background: '#ffffff' })
EmptyCanvasData == [fmt |-> "json", version |-> "none", objects |-> <<>>, background |-> "#ffffff"]

(***************************************************************************)
(* Document Store: presentationSlice.                                      *)
(***************************************************************************)
Tools == {"select", "text", "rectangle", "circle", "line", "image"}

initialState ==
    [slides |-> <<>>,
     currentSlideId |-> NULL,
     currentSlideIndex |-> -1,
     selectedTool |-> "select",
     isLoading |-> FALSE,
     error |-> NULL,
     presentationName |-> "Untitled Presentation",
     lastSaved |-> NoTime,
     isDirty |-> FALSE]

\* Array.prototype.findIndex on slide.id: 0-based, -1 when absent.
findIndex(slides, id) ==
    IF \E i \in 1..Len(slides) : slides[i].id = id
    THEN (CHOOSE i \in 1..Len(slides) :
              /\ slides[i].id = id
              /\ \A j \in 1..(i - 1) : slides[j].id # id) - 1
    ELSE -1

\* slides.splice(index, 1)
spliceOut(slides, index) ==
    [i \in 1..(Len(slides) - 1) |-> IF i <= index THEN slides[i] ELSE slides[i + 1]]

\* slides.splice(index, 0, slide)
spliceIn(slides, index, slide) ==
    [i \in 1..(Len(slides) + 1) |->
        IF i <= index THEN slides[i]
        ELSE IF i = index + 1 THEN slide
        ELSE slides[i - 1]]

addSlide(state, payload, timestamp, id) ==
    LET newSlide == [id |-> id,
                     name |-> IF "name" \in DOMAIN payload /\ payload.name # <<>>
                              THEN payload.name
                              ELSE DefaultSlideName(Len(state.slides) + 1),
                     canvasData |-> EmptyCanvasData,
                     thumbnail |-> NoThumbnail,
                     createdAt |-> timestamp,
                     updatedAt |-> timestamp]
        pushed == [state EXCEPT !.slides = Append(state.slides, newSlide)]
        activated == IF Falsy(state.currentSlideId)
                     THEN [pushed EXCEPT !.currentSlideId = id, !.currentSlideIndex = 0]
                     ELSE pushed
    IN  [activated EXCEPT !.isDirty = TRUE]

\* deleteSlide that forgets to move the active-slide pointer.
deleteSlideKeepsPointer(state, id) ==
    LET slideIndex == findIndex(state.slides, id)
    IN  IF slideIndex = -1 THEN state
        ELSE [state EXCEPT !.slides = spliceOut(state.slides, slideIndex)]

deleteSlide(state, id) ==
    LET slideIndex == findIndex(state.slides, id)
        rest == spliceOut(state.slides, slideIndex)
        newIndex == IF slideIndex > 0 THEN slideIndex - 1 ELSE 0
    IN  IF slideIndex = -1 THEN state
        ELSE IF state.currentSlideId # id THEN [state EXCEPT !.slides = rest]
        ELSE IF Len(rest) > 0
             THEN [state EXCEPT !.slides = rest,
                                !.currentSlideId = IF Falsy(rest[newIndex + 1].id)
                                                   THEN NULL
                                                   ELSE rest[newIndex + 1].id]
             ELSE [state EXCEPT !.slides = rest, !.currentSlideId = NULL]

\* setCurrentSlide without the findIndex guard.
setCurrentSlideUnguarded(state, id) ==
    [state EXCEPT !.currentSlideId = id, !.currentSlideIndex = findIndex(state.slides, id)]

setCurrentSlide(state, id) ==
    LET slideIndex == findIndex(state.slides, id)
    IN  IF slideIndex = -1 THEN state
        ELSE [state EXCEPT !.currentSlideId = id, !.currentSlideIndex = slideIndex]

\* updateSlide that marks the document dirty on every patch of a known slide.
updateSlideAlwaysDirty(state, payload, timestamp) ==
    LET slideIndex == findIndex(state.slides, payload.id)
        slide == state.slides[slideIndex + 1]
        patched == [slide EXCEPT
                      !.canvasData = IF "canvasData" \in DOMAIN payload THEN payload.canvasData ELSE @,
                      !.name = IF "name" \in DOMAIN payload THEN payload.name ELSE @,
                      !.thumbnail = IF "thumbnail" \in DOMAIN payload THEN payload.thumbnail ELSE @,
                      !.updatedAt = timestamp]
    IN  IF slideIndex = -1 THEN state
        ELSE [state EXCEPT !.slides[slideIndex + 1] = patched, !.isDirty = TRUE]

\* The payload is a record holding id and any of canvasData, name, thumbnail;
\* a field that is not in the record is undefined.
updateSlide(state, payload, timestamp) ==
    LET slideIndex == findIndex(state.slides, payload.id)
        slide == state.slides[slideIndex + 1]
        hasCanvas == "canvasData" \in DOMAIN payload
        hasName == "name" \in DOMAIN payload
        hasThumb == "thumbnail" \in DOMAIN payload
        patched == [slide EXCEPT
                      !.canvasData = IF hasCanvas THEN payload.canvasData ELSE @,
                      !.name = IF hasName THEN payload.name ELSE @,
                      !.thumbnail = IF hasThumb THEN payload.thumbnail ELSE @,
                      !.updatedAt = timestamp]
    IN  IF slideIndex = -1 THEN state
        ELSE [state EXCEPT !.slides[slideIndex + 1] = patched,
                           !.isDirty = IF hasCanvas \/ hasName THEN TRUE ELSE @]

\* duplicateSlide that pushes the copy to the end of slides.
duplicateSlideAppends(state, id, timestamp, newId) ==
    LET originalIndex == findIndex(state.slides, id)
        originalSlide == state.slides[originalIndex + 1]
        duplicatedSlide == [originalSlide EXCEPT
                              !.id = newId,
                              !.name = Append(originalSlide.name, " (Copy)"),
                              !.createdAt = timestamp,
                              !.updatedAt = timestamp]
    IN  IF originalIndex = -1 THEN state
        ELSE [state EXCEPT !.slides = Append(state.slides, duplicatedSlide)]

duplicateSlide(state, id, timestamp, newId) ==
    LET originalIndex == findIndex(state.slides, id)
        originalSlide == state.slides[originalIndex + 1]
        duplicatedSlide == [originalSlide EXCEPT
                              !.id = newId,
                              !.name = Append(originalSlide.name, " (Copy)"),
                              !.createdAt = timestamp,
                              !.updatedAt = timestamp]
    IN  IF originalIndex = -1 THEN state
        ELSE [state EXCEPT !.slides = spliceIn(state.slides, originalIndex + 1, duplicatedSlide)]

\* reorderSlides that exchanges the slides at the two indices.
reorderSlidesSwaps(state, fromIndex, toIndex) ==
    IF /\ fromIndex >= 0 /\ fromIndex < Len(state.slides)
       /\ toIndex >= 0 /\ toIndex < Len(state.slides)
    THEN [state EXCEPT !.slides =
              [i \in 1..Len(state.slides) |->
                  IF i = fromIndex + 1 THEN state.slides[toIndex + 1]
                  ELSE IF i = toIndex + 1 THEN state.slides[fromIndex + 1]
                  ELSE state.slides[i]]]
    ELSE state

reorderSlides(state, fromIndex, toIndex) ==
    IF /\ fromIndex >= 0 /\ fromIndex < Len(state.slides)
       /\ toIndex >= 0 /\ toIndex < Len(state.slides)
    THEN [state EXCEPT !.slides =
              spliceIn(spliceOut(state.slides, fromIndex), toIndex, state.slides[fromIndex + 1])]
    ELSE state

setSelectedTool(state, tool) == [state EXCEPT !.selectedTool = tool]

setPresentationName(state, name) == [state EXCEPT !.presentationName = name]

\* loadPresentation that leaves isDirty and error as they were.
loadPresentationKeepsFlags(state, payload, timestamp) ==
    [state EXCEPT !.slides = payload.slides,
                  !.presentationName = payload.name,
                  !.currentSlideId = IF Len(payload.slides) > 0 THEN payload.slides[1].id ELSE NULL,
                  !.currentSlideIndex = IF Len(payload.slides) > 0 THEN 0 ELSE -1,
                  !.lastSaved = timestamp]

loadPresentation(state, payload, timestamp) ==
    [state EXCEPT !.slides = payload.slides,
                  !.presentationName = payload.name,
                  !.currentSlideId = IF Len(payload.slides) > 0 THEN payload.slides[1].id ELSE NULL,
                  !.currentSlideIndex = IF Len(payload.slides) > 0 THEN 0 ELSE -1,
                  !.lastSaved = timestamp,
                  !.isDirty = FALSE,
                  !.error = NULL]

\* A clearPresentation that leaves currentSlideId as it is.
clearPresentationKeepsPointer(state) ==
    [state EXCEPT !.slides = <<>>,
                  !.presentationName = "Untitled Presentation",
                  !.lastSaved = NoTime,
                  !.error = NULL]

clearPresentation(state) ==
    [state EXCEPT !.slides = <<>>,
                  !.currentSlideId = NULL,
                  !.presentationName = "Untitled Presentation",
                  !.lastSaved = NoTime,
                  !.error = NULL]

setLoading(state, flag) == [state EXCEPT !.isLoading = flag]

setError(state, message) == [state EXCEPT !.error = message]

markAsSaved(state, timestamp) == [state EXCEPT !.lastSaved = timestamp, !.isDirty = FALSE]

(***************************************************************************)
(* Inputs of the store actions.                                            *)
(***************************************************************************)
\* addSlide payloads: {} and { name: 'Intro' }
AddPayloads == {<<>>, [name |-> <<"Intro">>]}

\* A scene object as toJSON writes it: its class, its place, its paint, the
\* text attributes of a text object and the members of a group.
NoFont == [fontSize |-> 0, fontWeight |-> "", fontStyle |-> "", textAlign |-> ""]

\* The natural size of an image and its scale factors as fractions
\* <<numerator, denominator>>; other objects have none.
NoImage == [width |-> 0, height |-> 0, scaleX |-> <<1, 1>>, scaleY |-> <<1, 1>>]

SceneObject(type, left, top, fill, stroke, strokeWidth) ==
    [type |-> type, left |-> left, top |-> top,
     fill |-> fill, stroke |-> stroke, strokeWidth |-> strokeWidth,
     font |-> NoFont, objects |-> <<>>, image |-> NoImage]

OneRect == SceneObject("rect", 540, 360, "#000000", "#2563eb", 3)

SceneOfOne == [fmt |-> "json", version |-> "6", objects |-> <<OneRect>>, background |-> "#ffffff"]

DocSlide(id, name, data) ==
    [id |-> id, name |-> name, canvasData |-> data, thumbnail |-> NoThumbnail,
     createdAt |-> 0, updatedAt |-> 0]

\* Documents that pass FileHandlers.validatePresentationData: one without
\* slides, and one whose first slide has the empty string as its id.
Documents ==
    {[name |-> "Deck", slides |-> <<>>],
     [name |-> "Deck", slides |-> <<DocSlide("", <<"Slide 1">>, EmptyCanvasData),
                                    DocSlide("doc-2", <<"Slide 2">>, SceneOfOne)>>]}

\* Ids a caller can pass: those of the slides, and one that names no slide.
SlideIds(state) == {state.slides[i].id : i \in 1..Len(state.slides)}
IdArgs == SlideIds(store) \cup {"slide-x"}

\* const currentSlide = slides.find(slide => slide.id === currentSlideId)
HasActiveSlide(state) == state.currentSlideId \in SlideIds(state)

UpdateFields ==
    {<<>>, [canvasData |-> SceneOfOne], [name |-> <<"Intro">>], [thumbnail |-> <<"png", <<>> >>]}

\* { id, ...fields }
WithId(id, fields) ==
    [k \in DOMAIN fields \cup {"id"} |-> IF k = "id" THEN id ELSE fields[k]]

(***************************************************************************)
(* The store alone: every action dispatched with every payload.            *)
(***************************************************************************)
\* fabricCanvasRef.current === null
NoCanvas ==
    [exists |-> FALSE, objects |-> <<>>, background |-> "", active |-> {},
     width |-> 0, height |-> 0]

\* useState({ fill: '#000000', stroke: '#2563eb', strokeWidth: 3 })
DefaultShapeFormat == [fill |-> "#000000", stroke |-> "#2563eb", strokeWidth |-> 3]

Init ==
    /\ store = initialState
    /\ now = 0
    /\ nextId = 1
    /\ last = [op |-> "init", payload |-> <<>>]
    /\ used = [patches |-> 0, loads |-> 0, events |-> 0]
    /\ canvas = NoCanvas
    /\ timers = <<>>
    /\ images = <<>>
    /\ mouseTool = "none"
    /\ writes = 0
    /\ currentShapeFormat = DefaultShapeFormat

canvasVars == <<canvas, timers, images, mouseTool, writes, currentShapeFormat>>

Dispatched(op, payload) == last' = [op |-> op, payload |-> payload]

DispatchAddSlide ==
    \E payload \in AddPayloads :
        /\ Len(store.slides) < MaxSlides
        /\ nextId <= MaxGen
        /\ store' = addSlide(store, payload, now, GenIds[nextId])
        /\ nextId' = nextId + 1
        /\ Dispatched("addSlide", payload)
        /\ UNCHANGED <<now, used, canvasVars>>

DispatchDeleteSlide ==
    \E id \in IdArgs :
        /\ store' = deleteSlide(store, id)
        /\ Dispatched("deleteSlide", [id |-> id])
        /\ UNCHANGED <<now, nextId, used, canvasVars>>

DispatchSetCurrentSlide ==
    \E id \in IdArgs :
        /\ store' = setCurrentSlide(store, id)
        /\ Dispatched("setCurrentSlide", [id |-> id])
        /\ UNCHANGED <<now, nextId, used, canvasVars>>

DispatchUpdateSlide ==
    \E id \in IdArgs, fields \in UpdateFields :
        /\ used.patches < MaxPatches
        /\ used' = [used EXCEPT !.patches = @ + 1]
        /\ store' = updateSlide(store, WithId(id, fields), now)
        /\ Dispatched("updateSlide", WithId(id, fields))
        /\ UNCHANGED <<now, nextId, canvasVars>>

DispatchDuplicateSlide ==
    \E id \in IdArgs :
        /\ Len(store.slides) < MaxSlides
        /\ nextId <= MaxGen
        /\ store' = duplicateSlide(store, id, now, GenIds[nextId])
        /\ nextId' = nextId + 1
        /\ Dispatched("duplicateSlide", [id |-> id])
        /\ UNCHANGED <<now, used, canvasVars>>

DispatchReorderSlides ==
    \E fromIndex \in -1..Len(store.slides), toIndex \in -1..Len(store.slides) :
        /\ store' = reorderSlides(store, fromIndex, toIndex)
        /\ Dispatched("reorderSlides", [fromIndex |-> fromIndex, toIndex |-> toIndex])
        /\ UNCHANGED <<now, nextId, used, canvasVars>>

DispatchSetSelectedTool ==
    \E tool \in {"select", "text"} :
        /\ store' = setSelectedTool(store, tool)
        /\ Dispatched("setSelectedTool", [tool |-> tool])
        /\ UNCHANGED <<now, nextId, used, canvasVars>>

DispatchSetPresentationName ==
    \E name \in {"Untitled Presentation", "Deck"} :
        /\ store' = setPresentationName(store, name)
        /\ Dispatched("setPresentationName", [name |-> name])
        /\ UNCHANGED <<now, nextId, used, canvasVars>>

DispatchLoadPresentation ==
    \E doc \in Documents :
        /\ used.loads < MaxLoads
        /\ used' = [used EXCEPT !.loads = @ + 1]
        /\ store' = loadPresentation(store, doc, now)
        /\ Dispatched("loadPresentation", doc)
        /\ UNCHANGED <<now, nextId, canvasVars>>

DispatchClearPresentation ==
    /\ store' = clearPresentation(store)
    /\ Dispatched("clearPresentation", <<>>)
    /\ UNCHANGED <<now, nextId, used, canvasVars>>

DispatchSetLoading ==
    \E flag \in {FALSE} :
        /\ store' = setLoading(store, flag)
        /\ Dispatched("setLoading", [flag |-> flag])
        /\ UNCHANGED <<now, nextId, used, canvasVars>>

DispatchSetError ==
    \E message \in {NULL, "Failed to load presentation"} :
        /\ store' = setError(store, message)
        /\ Dispatched("setError", [message |-> message])
        /\ UNCHANGED <<now, nextId, used, canvasVars>>

DispatchMarkAsSaved ==
    /\ store' = markAsSaved(store, now)
    /\ Dispatched("markAsSaved", <<>>)
    /\ UNCHANGED <<now, nextId, used, canvasVars>>

\* 100 ms pass; a timeout that is due runs before the next 100 ms do.  now is
\* the reading of Date.now(); readings later than MaxClock are not told
\* apart, so time passes only while it can still be observed.
Tick ==
    /\ now < MaxClock \/ timers # <<>>
    /\ \A i \in 1..Len(timers) : timers[i].rem > 0
    /\ now' = Min(now + 1, MaxClock)
    /\ timers' = [i \in 1..Len(timers) |-> [timers[i] EXCEPT !.rem = @ - 1]]
    /\ last' = [op |-> "tick", payload |-> <<>>]
    /\ UNCHANGED <<store, nextId, used, canvas, images, mouseTool, writes, currentShapeFormat>>

NextStore ==
    \/ DispatchAddSlide
    \/ DispatchDeleteSlide
    \/ DispatchSetCurrentSlide
    \/ DispatchUpdateSlide
    \/ DispatchLoadPresentation
    \/ DispatchClearPresentation
    \/ DispatchSetError
    \/ Tick

SpecStore == Init /\ [][NextStore]_vars

\* Only addSlide, deleteSlide and setCurrentSlide, from the initial state.
NextNav ==
    \/ DispatchAddSlide
    \/ DispatchDeleteSlide
    \/ DispatchSetCurrentSlide
    \/ Tick

SpecNav == Init /\ [][NextNav]_vars

\* The actions that edit the slide sequence and the presentation name, and
\* markAsSaved, from the initial state.
NextEdit ==
    \/ DispatchAddSlide
    \/ DispatchDeleteSlide
    \/ DispatchDuplicateSlide
    \/ DispatchReorderSlides
    \/ DispatchSetCurrentSlide
    \/ DispatchSetPresentationName
    \/ DispatchMarkAsSaved
    \/ Tick

SpecEdit == Init /\ [][NextEdit]_vars

\* duplicateSlide and reorderSlides on the documents that loadPresentation
\* installs, with every slide of them active in turn.
NextOrder ==
    \/ DispatchLoadPresentation
    \/ DispatchDuplicateSlide
    \/ DispatchReorderSlides
    \/ DispatchSetCurrentSlide

SpecOrder == Init /\ [][NextOrder]_vars

(***************************************************************************)
(* SlideCanvas: the live Fabric scene, its timers and pending image loads. *)
(*                                                                         *)
(* canvas  fabricCanvasRef.current: the objects in stacking order, the     *)
(*         background colour and the positions of the active objects.      *)
(* timers  the pending setTimeout callbacks in the order they were set:    *)
(*         kind "save" is the debounced save of the canvas-init effect,    *)
(*         "deleteSave" the delayed save of handleKeyDown, "revert" the    *)
(*         delayed setSelectedTool('select').  slideId is the              *)
(*         currentSlideId the callback closed over, rem the ticks left,    *)
(*         own whether the canvas that was live when it was set still is.  *)
(* images  the image inserts whose load has not settled; startedOn is the  *)
(*         slide that was active when the insert was requested.            *)
(* mouseTool  the selectedTool closed over by the mouse:down handler of    *)
(*         the live canvas, "none" when the canvas has no handler.         *)
(* writes  the updateSlide writes issued by the callbacks of the live      *)
(*         canvas since the debounce window in progress was opened.        *)
(***************************************************************************)
\* Delays are in ticks of 100 ms: 500 ms, 100 ms and 100 ms.
CanvasWidth == 1200
CanvasHeight == 800
SaveDelay == 5
DeleteSaveDelay == 1
RevertDelay == 1

\* new fabric.Canvas(canvasRef.current, { backgroundColor: '#ffffff', ... })
NewCanvas ==
    [exists |-> TRUE, objects |-> <<>>, background |-> "#ffffff", active |-> {},
     width |-> CanvasWidth, height |-> CanvasHeight]

\* JSON.stringify(fabricCanvasRef.current.toJSON())
Serialize(cv) ==
    [fmt |-> "json", version |-> "6", objects |-> cv.objects, background |-> cv.background]

\* FileHandlers.generateThumbnail(canvasRef.current): the bitmap of what the
\* canvas element shows.
generateThumbnail(cv) == <<"png", cv.objects>>

\* With an object of a kind that Fabric has no class for, the promise of
\* loadFromJSON rejects before the canvas is touched; nothing awaits it.
KnownKinds == {"rect", "circle", "line", "textbox", "image", "group"}

AllKnown(objects) == \A i \in 1..Len(objects) : objects[i].type \in KnownKinds

\* A load-slide effect that adds the objects it has a class for.
LoadSlideBestEffort(canvasData) ==
    IF canvasData.fmt = "json"
    THEN [NewCanvas EXCEPT !.objects = SelectSeq(canvasData.objects,
                                                 LAMBDA o : o.type \in KnownKinds),
                           !.background = canvasData.background]
    ELSE [NewCanvas EXCEPT !.background = ""]

\* The load-slide effect on a fresh canvas: JSON.parse and loadFromJSON, or
\* clear() when the data is empty or does not parse.
LoadSlide(canvasData) ==
    IF canvasData.fmt = "json"
    THEN IF AllKnown(canvasData.objects)
         THEN [NewCanvas EXCEPT !.objects = canvasData.objects,
                                !.background = canvasData.background]
         ELSE NewCanvas
    ELSE [NewCanvas EXCEPT !.background = ""]

SaveTimer(slideId) == [kind |-> "save", rem |-> SaveDelay, slideId |-> slideId, own |-> TRUE]
DeleteSaveTimer(slideId) == [kind |-> "deleteSave", rem |-> DeleteSaveDelay, slideId |-> slideId, own |-> TRUE]
RevertTimer == [kind |-> "revert", rem |-> RevertDelay, slideId |-> NULL, own |-> TRUE]

RemoveAt(seq, i) == [j \in 1..(Len(seq) - 1) |-> IF j < i THEN seq[j] ELSE seq[j + 1]]

\* debouncedSaveCanvasState: clearTimeout(saveTimeout); saveTimeout = setTimeout(..., 500)
IsOwnSave(t) == t.kind = "save" /\ t.own
NotOwnSave(t) == ~IsOwnSave(t)
debouncedSaveCanvasState(tm, slideId) == Append(SelectSeq(tm, NotOwnSave), SaveTimer(slideId))

HasOwnSave(tm) == \E i \in 1..Len(tm) : IsOwnSave(tm[i])

\* The cleanup of the canvas-init effect: canvas.dispose() and
\* fabricCanvasRef.current = null; no pending timeout is cleared.
Orphan(t) == [t EXCEPT !.own = FALSE]
CleanupCanvas(tm) == [i \in 1..Len(tm) |-> Orphan(tm[i])]

CurrentSlideOf(state) == state.slides[findIndex(state.slides, state.currentSlideId) + 1]

\* A dispatch followed by the effects of the render it causes.  cv and tm
\* are the canvas and the timers as the handler left them.
\*  - canvas-init effect, deps [currentSlideId]: cleanup, then a new canvas
\*    when the canvas element is rendered (a current slide exists);
\*  - mouse-handler effect, deps [selectedTool, add...]: attaches the
\*    handler to the canvas that is live when selectedTool changes;
\*  - load-slide effect, deps [currentSlideId]: loads the current slide,
\*    and every object that loadFromJSON adds fires object:added.
Commit(newStore, cv, tm) ==
    LET slideChanged == newStore.currentSlideId # store.currentSlideId
        toolChanged == newStore.selectedTool # store.selectedTool
        hasSlide == HasActiveSlide(newStore)
        loaded == IF hasSlide THEN LoadSlide(CurrentSlideOf(newStore).canvasData) ELSE NoCanvas
        orphaned == CleanupCanvas(tm)
    IN  /\ store' = newStore
        /\ canvas' = IF slideChanged THEN loaded ELSE cv
        /\ timers' = IF ~slideChanged THEN tm
                     ELSE IF Len(loaded.objects) > 0
                          THEN debouncedSaveCanvasState(orphaned, newStore.currentSlideId)
                          ELSE orphaned
        /\ Len(timers') <= MaxTimers
        /\ mouseTool' = IF toolChanged /\ canvas'.exists THEN newStore.selectedTool
                        ELSE IF slideChanged THEN "none"
                        ELSE mouseTool

Did(op, payload) == last' = [op |-> op, payload |-> payload]

(***************************************************************************)
(* Object creation (Tool Interpreter).                                     *)
(***************************************************************************)
\* canvas.add(obj); canvas.setActiveObject(obj)
AddAndSelect(cv, obj) ==
    [cv EXCEPT !.objects = Append(cv.objects, obj), !.active = {Len(cv.objects) + 1}]

\* new fabric.Textbox('Click to edit text', { fontSize: 24, fontWeight: 'bold', ... })
addTextBox(cv, x, y) ==
    LET textWidth == 200
        textHeight == 30
        adjustedX == Max(10, Min(x - textWidth \div 2, cv.width - textWidth - 10))
        adjustedY == Max(10, Min(y - textHeight \div 2, cv.height - textHeight - 10))
    IN  AddAndSelect(cv, [SceneObject("textbox", adjustedX, adjustedY, "#000000", NULL, 1)
                            EXCEPT !.font = [fontSize |-> 24, fontWeight |-> "bold",
                                             fontStyle |-> "normal", textAlign |-> "left"]])

\* A rectangle centred on the pointer wherever the pointer is.
addRectangleCentred(cv, format, x, y) ==
    LET rectWidth == 120
        rectHeight == 80
    IN  AddAndSelect(cv, SceneObject("rect", x - rectWidth \div 2, y - rectHeight \div 2,
                                     format.fill, format.stroke, format.strokeWidth))

addRectangle(cv, format, x, y) ==
    LET rectWidth == 120
        rectHeight == 80
        adjustedX == Max(10, Min(x - rectWidth \div 2, cv.width - rectWidth - 10))
        adjustedY == Max(10, Min(y - rectHeight \div 2, cv.height - rectHeight - 10))
    IN  AddAndSelect(cv, SceneObject("rect", adjustedX, adjustedY,
                                     format.fill, format.stroke, format.strokeWidth))

addCircle(cv, format, x, y) ==
    LET radius == 40
        adjustedX == Max(radius + 10, Min(x - radius, cv.width - radius - 10))
        adjustedY == Max(radius + 10, Min(y - radius, cv.height - radius - 10))
    IN  AddAndSelect(cv, SceneObject("circle", adjustedX, adjustedY,
                                     format.fill, format.stroke, format.strokeWidth))

\* new fabric.Line([startX, adjustedY, endX, adjustedY], { stroke, strokeWidth, ... })
addLine(cv, format, x, y) ==
    LET lineLength == 100
        startX == Max(10, Min(x - lineLength \div 2, cv.width - lineLength - 10))
        adjustedY == Max(10, Min(y, cv.height - 10))
    IN  AddAndSelect(cv, SceneObject("line", startX, adjustedY,
                                     NULL, format.stroke, format.strokeWidth))

\* The image of addImageFromUrl / addImageFromFile after img.set({ left: 100, top: 100 }).
ImageObject == SceneObject("image", 100, 100, NULL, NULL, 0)

(***************************************************************************)
(* The application: handlers of Home, SlideList, Toolbar and SlideCanvas.  *)
(***************************************************************************)
\* Pointer positions of a mouse:down: inside and left of the canvas.
Pointers == {<<600, 400>>, <<-5, 100>>}

\* Tools picked in the toolbar.
PickedTools == {"select", "rectangle", "image"}

\* Positions an object is dragged to.
DragTargets == {100, 540}

\* Files opened by the load dialog that pass validation.
OpenedDocuments ==
    {[name |-> "Deck", slides |-> <<>>],
     [name |-> "Deck", slides |-> <<DocSlide("slide-1", <<"Slide 1">>, SceneOfOne),
                                    DocSlide("doc-2", <<"Slide 2">>, EmptyCanvasData)>>]}

\* The debounce window in progress stays open while the debounce timer of
\* the live canvas is pending; a mutation with no such timer opens a new one.
WritesAtMutation == IF HasOwnSave(timers) THEN writes ELSE 0

\* Home: useEffect(() => { if (slides.length === 0) dispatch(addSlide({ name: 'Slide 1' })) })
HomeInitialSlideEffect ==
    /\ Len(store.slides) = 0
    /\ nextId <= MaxGen
    /\ Commit(addSlide(store, [name |-> <<"Slide 1">>], now, GenIds[nextId]), canvas, timers)
    /\ nextId' = nextId + 1
    /\ writes' = 0
    /\ Did("homeInitialSlide", <<>>)
    /\ UNCHANGED <<now, used, images, currentShapeFormat>>

\* The handlers below run on a user event; the Home effect has run by then.
Rendered == Len(store.slides) > 0

\* One more user event.
UserEvent ==
    /\ used.events < MaxEvents
    /\ used' = [used EXCEPT !.events = @ + 1]

HandleAddSlide ==
    /\ Rendered
    /\ Len(store.slides) < MaxDeck
    /\ nextId <= MaxGen
    /\ Commit(addSlide(store, <<>>, now, GenIds[nextId]), canvas, timers)
    /\ nextId' = nextId + 1
    /\ UserEvent
    /\ Did("handleAddSlide", <<>>)
    /\ UNCHANGED <<now, images, writes, currentShapeFormat>>

HandleSelectSlide ==
    \E slideId \in SlideIds(store) :
        /\ Rendered
        /\ Commit(setCurrentSlide(store, slideId), canvas, timers)
        /\ writes' = IF slideId # store.currentSlideId THEN 0 ELSE writes
        /\ UserEvent
        /\ Did("handleSelectSlide", [id |-> slideId])
        /\ UNCHANGED <<now, nextId, images, currentShapeFormat>>

\* if (slides.length > 1) dispatch(deleteSlide(slideId))
HandleDeleteSlide ==
    \E slideId \in SlideIds(store) :
        /\ Rendered
        /\ LET newStore == IF Len(store.slides) > 1 THEN deleteSlide(store, slideId) ELSE store
           IN  /\ Commit(newStore, canvas, timers)
               /\ writes' = IF newStore.currentSlideId # store.currentSlideId THEN 0 ELSE writes
        /\ UserEvent
        /\ Did("handleDeleteSlide", [id |-> slideId])
        /\ UNCHANGED <<now, nextId, images, currentShapeFormat>>

\* A toolbar handler that dispatches every tool id it is given.
handleToolSelectDispatchesImage(toolId) ==
    /\ Commit(setSelectedTool(store, toolId), canvas, timers)
    /\ UserEvent
    /\ Did("handleToolSelect", [tool |-> toolId])
    /\ UNCHANGED <<now, nextId, images, writes, currentShapeFormat>>

\* if (toolId === 'image') { setShowImageOptions(...); return; }
handleToolSelect(toolId) ==
    /\ Commit(IF toolId = "image" THEN store ELSE setSelectedTool(store, toolId), canvas, timers)
    /\ UserEvent
    /\ Did("handleToolSelect", [tool |-> toolId])
    /\ UNCHANGED <<now, nextId, images, writes, currentShapeFormat>>

HandleToolSelect == \E toolId \in PickedTools : Rendered /\ handleToolSelect(toolId)

\* The tools whose case in handleCanvasClick creates an object.
CreatingTools == {"text", "rectangle", "circle", "line"}

\* switch (selectedTool) of handleCanvasClick, with the tool the attached
\* handler closed over.
Created(tool, cv, format, x, y) ==
    CASE tool = "text" -> addTextBox(cv, x, y)
      [] tool = "rectangle" -> addRectangle(cv, format, x, y)
      [] tool = "circle" -> addCircle(cv, format, x, y)
      [] tool = "line" -> addLine(cv, format, x, y)
      [] OTHER -> cv

\* mouse:down on the live canvas.  Only a handler attached to this canvas
\* sees it; a canvas made after the last change of selectedTool has none.
handleCanvasClick(pointer) ==
    /\ LET x == pointer[1]
           y == pointer[2]
           outside == x < 0 \/ y < 0 \/ x > canvas.width \/ y > canvas.height
       IN  IF mouseTool \in CreatingTools /\ ~outside
           THEN /\ Len(canvas.objects) < MaxObjects
                /\ canvas' = Created(mouseTool, canvas, currentShapeFormat, x, y)
                /\ timers' = Append(debouncedSaveCanvasState(timers, store.currentSlideId),
                                    RevertTimer)
                /\ Len(timers') <= MaxTimers
                /\ writes' = WritesAtMutation
           ELSE UNCHANGED <<canvas, timers, writes>>
    /\ UserEvent
    /\ Did("handleCanvasClick", [x |-> pointer[1], y |-> pointer[2]])
    /\ UNCHANGED <<store, now, nextId, images, mouseTool, currentShapeFormat>>

HandleCanvasClick == \E pointer \in Pointers : canvas.exists /\ handleCanvasClick(pointer)

\* Fabric's own selection of objects by the pointer.
SelectObjects ==
    \E picked \in SUBSET (1..Len(canvas.objects)) :
        /\ canvas.exists
        /\ mouseTool \in {"none", "select"}
        /\ picked # {}
        /\ picked # canvas.active
        /\ canvas' = [canvas EXCEPT !.active = picked]
        /\ UserEvent
        /\ Did("selectObjects", [picked |-> picked])
        /\ UNCHANGED <<store, now, nextId, timers, images, mouseTool, writes, currentShapeFormat>>

\* Fabric's own drag of an object; it ends with object:modified.
ObjectModified ==
    \E i \in 1..Len(canvas.objects), left \in DragTargets :
        /\ canvas.exists
        /\ mouseTool \in {"none", "select"}
        /\ canvas.objects[i].left # left
        /\ canvas' = [canvas EXCEPT !.objects[i].left = left, !.active = {i}]
        /\ timers' = debouncedSaveCanvasState(timers, store.currentSlideId)
        /\ Len(timers') <= MaxTimers
        /\ writes' = WritesAtMutation
        /\ UserEvent
        /\ Did("objectModified", [index |-> i, left |-> left])
        /\ UNCHANGED <<store, now, nextId, images, mouseTool, currentShapeFormat>>

\* A key handler that empties the scene.
handleKeyDownClearsScene(target) ==
    /\ IF canvas.active # {}
       THEN /\ canvas' = [canvas EXCEPT !.objects = <<>>, !.active = {}]
            /\ timers' = Append(debouncedSaveCanvasState(timers, store.currentSlideId),
                                DeleteSaveTimer(store.currentSlideId))
            /\ Len(timers') <= MaxTimers
            /\ writes' = WritesAtMutation
       ELSE UNCHANGED <<canvas, timers, writes>>
    /\ UserEvent
    /\ Did("handleKeyDown", [removed |-> canvas.active, target |-> target])
    /\ UNCHANGED <<store, now, nextId, images, mouseTool, currentShapeFormat>>

\* Delete or Backspace reaches the keydown listener of the document; the
\* listener reads the key and the canvas, not the target of the event.
handleKeyDown(target) ==
    /\ IF canvas.active # {}
       THEN LET Kept(i) == i \notin canvas.active
                keptIndices == SelectSeq([i \in 1..Len(canvas.objects) |-> i], Kept)
            IN  /\ canvas' = [canvas EXCEPT
                                !.objects = [j \in 1..Len(keptIndices) |-> canvas.objects[keptIndices[j]]],
                                !.active = {}]
                /\ timers' = Append(debouncedSaveCanvasState(timers, store.currentSlideId),
                                    DeleteSaveTimer(store.currentSlideId))
                /\ Len(timers') <= MaxTimers
                /\ writes' = WritesAtMutation
       ELSE UNCHANGED <<canvas, timers, writes>>
    /\ UserEvent
    /\ Did("handleKeyDown", [removed |-> canvas.active, target |-> target])
    /\ UNCHANGED <<store, now, nextId, images, mouseTool, currentShapeFormat>>

\* The key is pressed with the focus on the page.
HandleKeyDown == canvas.exists /\ handleKeyDown("body")

\* addImageFromUrl / addImageFromFile up to the first await.
AddImage ==
    \E from \in {"url", "file"} :
        /\ canvas.exists
        /\ Len(images) < MaxImages
        /\ images' = Append(images, [startedOn |-> store.currentSlideId])
        /\ UserEvent
        /\ Did("addImage", [from |-> from])
        /\ UNCHANGED <<store, now, nextId, canvas, timers, mouseTool, writes, currentShapeFormat>>

\* The load of a pending image resolves: fabricCanvasRef.current.add(img).
\* Without a live canvas the call throws and the catch block alerts.
ImageLoaded ==
    \E i \in 1..Len(images) :
        /\ images' = RemoveAt(images, i)
        /\ IF canvas.exists
           THEN /\ Len(canvas.objects) < MaxObjects
                /\ canvas' = AddAndSelect(canvas, ImageObject)
                /\ timers' = debouncedSaveCanvasState(timers, store.currentSlideId)
                /\ Len(timers') <= MaxTimers
                /\ writes' = WritesAtMutation
           ELSE UNCHANGED <<canvas, timers, writes>>
        /\ Did("imageLoaded", images[i])
        /\ UNCHANGED <<store, now, nextId, used, mouseTool, currentShapeFormat>>

\* The load of a pending image rejects.
ImageFailed ==
    \E i \in 1..Len(images) :
        /\ images' = RemoveAt(images, i)
        /\ Did("imageFailed", images[i])
        /\ UNCHANGED <<store, now, nextId, used, canvas, timers, mouseTool, writes, currentShapeFormat>>

\* await FileHandlers.savePresentation(...) resolves or rejects.
HandleSavePresentation ==
    \E saved \in BOOLEAN :
        /\ Rendered
        /\ Commit(IF saved THEN markAsSaved(store, now)
                  ELSE setError(store, "Failed to save presentation as JSON"), canvas, timers)
        /\ UserEvent
        /\ Did("handleSavePresentation", [saved |-> saved])
        /\ UNCHANGED <<now, nextId, images, writes, currentShapeFormat>>

HandleLoadPresentation ==
    \E doc \in OpenedDocuments :
        /\ Rendered
        /\ used.loads < MaxLoads
        /\ used.events < MaxEvents
        /\ used' = [used EXCEPT !.loads = @ + 1, !.events = @ + 1]
        /\ LET newStore == loadPresentation(store, doc, now)
           IN  /\ Commit(newStore, canvas, timers)
               /\ writes' = IF newStore.currentSlideId # store.currentSlideId THEN 0 ELSE writes
        /\ Did("handleLoadPresentation", doc)
        /\ UNCHANGED <<now, nextId, images, currentShapeFormat>>

\* FileHandlers.loadPresentation rejects: no file, parse error, invalid format.
HandleLoadPresentationFailed ==
    /\ Rendered
    /\ Commit(setError(store, "Failed to load presentation"), canvas, timers)
    /\ UserEvent
    /\ Did("handleLoadPresentationFailed", <<>>)
    /\ UNCHANGED <<now, nextId, images, writes, currentShapeFormat>>

\* window.confirm when dirty, then clearPresentation and addSlide in one event.
HandleNewPresentation ==
    \E confirmed \in BOOLEAN :
        /\ Rendered
        /\ store.isDirty \/ confirmed
        /\ IF confirmed
           THEN /\ nextId <= MaxGen
                /\ Commit(addSlide(clearPresentation(store), [name |-> <<"Slide 1">>],
                                   now, GenIds[nextId]), canvas, timers)
                /\ nextId' = nextId + 1
                /\ writes' = 0
           ELSE UNCHANGED <<store, canvas, timers, mouseTool, nextId, writes>>
        /\ UserEvent
        /\ Did("handleNewPresentation", [confirmed |-> confirmed])
        /\ UNCHANGED <<now, images, currentShapeFormat>>

\* The callback of a save timeout (debounced or after Delete): it reads
\* fabricCanvasRef.current when it runs and the currentSlideId it closed over.
SavePayload(t) ==
    [id |-> t.slideId, canvasData |-> Serialize(canvas), thumbnail |-> generateThumbnail(canvas)]

SaveTimeoutRuns(i) ==
    /\ timers[i].rem = 0
    /\ IF canvas.exists /\ ~Falsy(timers[i].slideId)
       THEN /\ Commit(updateSlide(store, SavePayload(timers[i]), now), canvas, RemoveAt(timers, i))
            /\ writes' = IF timers[i].own THEN writes + 1 ELSE writes
       ELSE /\ timers' = RemoveAt(timers, i)
            /\ UNCHANGED <<store, canvas, mouseTool, writes>>
    /\ Did(timers[i].kind, timers[i])
    /\ UNCHANGED <<now, nextId, used, images, currentShapeFormat>>

\* The timeout set by debouncedSaveCanvasState runs.
DebouncedSaveFires ==
    \E i \in 1..Len(timers) : timers[i].kind = "save" /\ SaveTimeoutRuns(i)

\* The timeout set by handleKeyDown runs.
DeleteSaveFires ==
    \E i \in 1..Len(timers) : timers[i].kind = "deleteSave" /\ SaveTimeoutRuns(i)

\* A revert timeout that is discarded when it is due.
ToolRevertDropped ==
    \E i \in 1..Len(timers) :
        /\ timers[i].kind = "revert"
        /\ timers[i].rem = 0
        /\ timers' = RemoveAt(timers, i)
        /\ Did("revert", timers[i])
        /\ UNCHANGED <<store, canvas, mouseTool, now, nextId, used, images, writes,
                       currentShapeFormat>>

\* setTimeout(() => dispatch(setSelectedTool('select')), 100)
ToolRevertFires ==
    \E i \in 1..Len(timers) :
        /\ timers[i].kind = "revert"
        /\ timers[i].rem = 0
        /\ Commit(setSelectedTool(store, "select"), canvas, RemoveAt(timers, i))
        /\ Did("revert", timers[i])
        /\ UNCHANGED <<now, nextId, used, images, writes, currentShapeFormat>>

Next ==
    \/ HomeInitialSlideEffect
    \/ HandleAddSlide
    \/ HandleSelectSlide
    \/ HandleDeleteSlide
    \/ HandleToolSelect
    \/ HandleCanvasClick
    \/ SelectObjects
    \/ ObjectModified
    \/ HandleKeyDown
    \/ AddImage
    \/ ImageLoaded
    \/ ImageFailed
    \/ HandleSavePresentation
    \/ HandleLoadPresentation
    \/ HandleLoadPresentationFailed
    \/ HandleNewPresentation
    \/ DebouncedSaveFires
    \/ DeleteSaveFires
    \/ ToolRevertFires
    \/ Tick

Spec == Init /\ [][Next]_vars

(***************************************************************************)
(* The toolbar and the canvas on their own: every tool, on every slide.    *)
(***************************************************************************)
HandleToolSelectOfAll == \E toolId \in Tools : Rendered /\ handleToolSelect(toolId)

NextTool ==
    \/ HomeInitialSlideEffect
    \/ HandleAddSlide
    \/ HandleSelectSlide
    \/ HandleToolSelectOfAll
    \/ HandleCanvasClick
    \/ DebouncedSaveFires
    \/ ToolRevertFires
    \/ Tick

SpecTool == Init /\ [][NextTool]_vars

\* Time passes and a timeout that is due runs.
SpecToolFair ==
    /\ Init
    /\ [][NextTool]_vars
    /\ WF_vars(Tick)
    /\ WF_vars(DebouncedSaveFires)
    /\ WF_vars(ToolRevertFires)

(***************************************************************************)
(* Persistence: FileHandlers and the load handler of the Toolbar.          *)
(*                                                                         *)
(* A parsed JSON value is a record tagged with its kind.  The text of a    *)
(* file is the value JSON.parse returns for it, or Malformed when          *)
(* JSON.parse throws.                                                      *)
(***************************************************************************)
JUndefined == [t |-> "undefined"]
JNull == [t |-> "null"]
JNumber(n) == [t |-> "number", n |-> n]
JString(str) == [t |-> "string", s |-> str]
JArray(items) == [t |-> "array", items |-> items]
JObject(fields) == [t |-> "object", fields |-> fields]

Malformed == [t |-> "malformed"]

\* typeof v
typeof(v) == IF v.t \in {"null", "array", "object"} THEN "object" ELSE v.t

\* v.k for a v that is neither null nor undefined
Get(v, k) == IF v.t = "object" /\ k \in DOMAIN v.fields THEN v.fields[k] ELSE JUndefined

CURRENT_VERSION == "1.0.0"

\* JSON.stringify of a slide: a property whose value is undefined is left out.
JsonOfSlide(slide) ==
    LET always == [id |-> JString(slide.id),
                   name |-> JString(slide.name),
                   canvasData |-> JString(slide.canvasData),
                   createdAt |-> JNumber(slide.createdAt),
                   updatedAt |-> JNumber(slide.updatedAt)]
    IN  JObject(IF slide.thumbnail = NoThumbnail
                THEN always
                ELSE [k \in DOMAIN always \cup {"thumbnail"} |->
                         IF k = "thumbnail" THEN JString(slide.thumbnail) ELSE always[k]])

\* saveAsJSON without the version property.
saveAsJSONUnversioned(presentationName, slides, timestamp) ==
    JObject([name |-> JString(presentationName),
             slides |-> JArray([i \in 1..Len(slides) |-> JsonOfSlide(slides[i])]),
             createdAt |-> JNumber(timestamp),
             updatedAt |-> JNumber(timestamp)])

\* The value that the text written by saveAsJSON parses to.
saveAsJSON(presentationName, slides, timestamp) ==
    JObject([name |-> JString(presentationName),
             slides |-> JArray([i \in 1..Len(slides) |-> JsonOfSlide(slides[i])]),
             version |-> JString(CURRENT_VERSION),
             createdAt |-> JNumber(timestamp),
             updatedAt |-> JNumber(timestamp)])

\* The callback of data.slides.every(...); reading a property of null throws.
SlideCheckThrows(slide) == slide.t \in {"null", "undefined"}

SlideCheck(slide) ==
    /\ typeof(Get(slide, "id")) = "string"
    /\ typeof(Get(slide, "name")) = "string"
    /\ typeof(Get(slide, "canvasData")) = "string"
    /\ typeof(Get(slide, "createdAt")) = "number"
    /\ typeof(Get(slide, "updatedAt")) = "number"

\* The conjuncts of validatePresentationData that come before the slides.
HeaderCheck(data) ==
    /\ typeof(data) = "object"
    /\ data.t # "null"
    /\ typeof(Get(data, "name")) = "string"
    /\ Get(data, "slides").t = "array"
    /\ typeof(Get(data, "version")) = "string"

\* validatePresentationData that also asks for a numeric createdAt of the
\* document.
validatePresentationDataDated(data) ==
    IF ~HeaderCheck(data) \/ typeof(Get(data, "createdAt")) # "number" THEN "false"
    ELSE LET items == Get(data, "slides").items
         IN  IF \A i \in 1..Len(items) : ~SlideCheckThrows(items[i]) /\ SlideCheck(items[i])
             THEN "true"
             ELSE "false"

\* "true", "false" or "TypeError".  every() stops at the first slide that
\* fails the check, so a later null slide is not read.
validatePresentationData(data) ==
    IF ~HeaderCheck(data) THEN "false"
    ELSE LET items == Get(data, "slides").items
             Fails(i) == SlideCheckThrows(items[i]) \/ ~SlideCheck(items[i])
         IN  IF \A i \in 1..Len(items) : ~Fails(i) THEN "true"
             ELSE LET first == CHOOSE i \in 1..Len(items) :
                                   Fails(i) /\ \A j \in 1..(i - 1) : ~Fails(j)
                  IN  IF SlideCheckThrows(items[first]) THEN "TypeError" ELSE "false"

Resolved(data) == [ok |-> TRUE, data |-> data]
Rejected(message) == [ok |-> FALSE, message |-> message]

\* loadJSONFile; an exception is caught by the onchange handler of
\* FileHandlers.loadPresentation.
loadJSONFile(file) ==
    IF file.text = Malformed THEN Rejected("Failed to parse presentation file")
    ELSE LET valid == validatePresentationData(file.text)
         IN  IF valid = "TypeError" THEN Rejected("Failed to parse presentation file")
             ELSE IF valid = "false" THEN Rejected("Invalid JSON presentation file format")
             ELSE Resolved(file.text)

\* FileHandlers.loadPresentation once the file dialog has closed.
FileHandlersLoadPresentation(file) ==
    IF file.ext = "none" THEN Rejected("No file selected")
    ELSE IF file.ext = "json" THEN loadJSONFile(file)
    ELSE IF file.ext = "pptx" THEN Rejected("PPTX import is being developed")
    ELSE Rejected("Unsupported file format")

\* The slide object of a parsed document as the store holds it.
SlideOfJson(v) ==
    [id |-> Get(v, "id").s,
     name |-> Get(v, "name").s,
     canvasData |-> Get(v, "canvasData").s,
     thumbnail |-> IF Get(v, "thumbnail").t = "string" THEN Get(v, "thumbnail").s ELSE NoThumbnail,
     createdAt |-> Get(v, "createdAt").n,
     updatedAt |-> Get(v, "updatedAt").n]

\* { slides: data.slides, name: data.name }
LoadPayload(data) ==
    [name |-> Get(data, "name").s,
     slides |-> [i \in 1..Len(Get(data, "slides").items) |->
                    SlideOfJson(Get(data, "slides").items[i])]]

\* The catch block of handleLoadPresentation that also empties the document.
handleLoadPresentationCatchClears(state) ==
    setError(clearPresentation(state), "Failed to load presentation")

\* The catch block of handleLoadPresentation.
handleLoadPresentationCatch(state) == setError(state, "Failed to load presentation")

\* handleLoadPresentation: await FileHandlers.loadPresentation(), then
\* dispatch loadPresentation or, in the catch block, setError.
handleLoadPresentation(state, file, timestamp) ==
    LET outcome == FileHandlersLoadPresentation(file)
    IN  IF outcome.ok THEN loadPresentation(state, LoadPayload(outcome.data), timestamp)
        ELSE handleLoadPresentationCatch(state)

\* obj without the property k, and obj with the property k set to v.
Without(obj, k) == JObject([f \in DOMAIN obj.fields \ {k} |-> obj.fields[f]])
With(obj, k, v) ==
    JObject([f \in DOMAIN obj.fields \cup {k} |-> IF f = k THEN v ELSE obj.fields[f]])

\* canvasData that JSON.parse rejects, and a scene with an object of a kind
\* that Fabric does not know.
NotJson == [fmt |-> "text", version |-> "none", objects |-> <<>>, background |-> ""]
Widget == [OneRect EXCEPT !.type = "widget"]
SceneOfUnknown ==
    [fmt |-> "json", version |-> "6", objects |-> <<OneRect, Widget>>, background |-> "#ffffff"]

GoodSlide1 ==
    JsonOfSlide([DocSlide("doc-1", <<"Slide 1">>, SceneOfOne) EXCEPT
                    !.thumbnail = <<"png", <<OneRect>> >>])
GoodSlide2 == JsonOfSlide(DocSlide("doc-2", <<"Slide 2">>, EmptyCanvasData))

Deck(slides) ==
    JObject([name |-> JString("Deck"), slides |-> JArray(slides),
             version |-> JString(CURRENT_VERSION),
             createdAt |-> JNumber(0), updatedAt |-> JNumber(0)])

GoodDeck == Deck(<<GoodSlide1, GoodSlide2>>)

\* A document of an older version whose snapshots are not scenes.
CorruptDeck ==
    With(Deck(<<JsonOfSlide(DocSlide("doc-1", <<"Slide 1">>, NotJson)),
                JsonOfSlide(DocSlide("doc-2", <<"Slide 2">>, SceneOfUnknown))>>),
         "version", JString("0.9"))

\* A document whose two slides have the same id.
TwinDeck == Deck(<<GoodSlide1, With(GoodSlide2, "id", JString("doc-1"))>>)

\* What the file dialog can hand over: no file, a file of another type, and
\* .json files with text that does not parse, that parses to something
\* other than a presentation, and that parses to a presentation.
Files ==
    << [ext |-> "none", text |-> Malformed],
       [ext |-> "txt", text |-> GoodDeck],
       [ext |-> "pptx", text |-> Malformed],
       [ext |-> "json", text |-> Malformed],
       [ext |-> "json", text |-> JNull],
       [ext |-> "json", text |-> JNumber(5)],
       [ext |-> "json", text |-> JArray(<<GoodSlide1>>)],
       [ext |-> "json", text |-> Without(GoodDeck, "version")],
       [ext |-> "json", text |-> With(GoodDeck, "version", JNumber(1))],
       [ext |-> "json", text |-> With(GoodDeck, "name", JNull)],
       [ext |-> "json", text |-> With(GoodDeck, "slides", JObject(<<>>))],
       [ext |-> "json", text |-> Deck(<<GoodSlide1, Without(GoodSlide2, "updatedAt")>>)],
       [ext |-> "json", text |-> Deck(<<With(GoodSlide1, "id", JNumber(1)), GoodSlide2>>)],
       [ext |-> "json", text |-> Deck(<<GoodSlide1, With(GoodSlide2, "canvasData", JObject(<<>>))>>)],
       [ext |-> "json", text |-> Deck(<<GoodSlide1, JNull>>)],
       [ext |-> "json", text |-> Deck(<<Without(GoodSlide1, "name"), JNull>>)],
       [ext |-> "json", text |-> Deck(<<GoodSlide1, JNumber(3)>>)],
       [ext |-> "json", text |-> Without(GoodDeck, "createdAt")],
       [ext |-> "json", text |-> Deck(<<>>)],
       [ext |-> "json", text |-> GoodDeck],
       [ext |-> "json", text |-> CorruptDeck],
       [ext |-> "json", text |-> TwinDeck] >>

\* The Load button: the whole of handleLoadPresentation for one file.
HandleLoadPresentationFromFile ==
    \E k \in 1..Len(Files) :
        /\ Rendered
        /\ used.loads < MaxLoads
        /\ used.events < MaxEvents
        /\ used' = [used EXCEPT !.loads = @ + 1, !.events = @ + 1]
        /\ LET newStore == handleLoadPresentation(store, Files[k], now)
           IN  /\ Commit(newStore, canvas, timers)
               /\ writes' = IF newStore.currentSlideId # store.currentSlideId THEN 0 ELSE writes
        /\ Did("loadFile", Files[k])
        /\ UNCHANGED <<now, nextId, images, currentShapeFormat>>

\* Loading files, adding and selecting slides, and the saves that loading a
\* scene arms.
NextFile ==
    \/ HomeInitialSlideEffect
    \/ HandleAddSlide
    \/ HandleSelectSlide
    \/ HandleLoadPresentationFromFile
    \/ DebouncedSaveFires
    \/ Tick

SpecFile == Init /\ [][NextFile]_vars

(***************************************************************************)
(* Placement: the canvas follows its container, objects stay inside it.    *)
(***************************************************************************)
\* clientWidth and clientHeight of the canvas's parent element.
Containers == {<<1632, 1032>>, <<632, 232>>, <<254, 632>>, <<182, 632>>}

\* handleResize: the largest 3:2 canvas that fits, at most 1200 x 800.
handleResize(cv, clientWidth, clientHeight) ==
    LET containerWidth == clientWidth - 32
        containerHeight == clientHeight - 32
        fitWidth == Min(containerWidth, CanvasWidth)
        fitHeight == (fitWidth * 2) \div 3
        newHeight == IF fitHeight > containerHeight THEN Min(containerHeight, CanvasHeight)
                     ELSE fitHeight
        newWidth == IF fitHeight > containerHeight THEN (newHeight * 3) \div 2 ELSE fitWidth
    IN  [cv EXCEPT !.width = newWidth, !.height = newHeight]

\* The resize listener of the window, and the first resize 100 ms after
\* the canvas is made.
HandleResize ==
    \E container \in Containers :
        /\ canvas.exists
        /\ canvas' = handleResize(canvas, container[1], container[2])
        /\ canvas' # canvas
        /\ UserEvent
        /\ Did("handleResize", container)
        /\ UNCHANGED <<store, now, nextId, timers, images, mouseTool, writes, currentShapeFormat>>

\* Pointer positions at the corners, at the edges and in the middle.
EdgePointers ==
    {<<0, 0>>, <<5, 5>>, <<70, 50>>, <<110, 25>>, <<111, 74>>, <<222, 148>>,
     <<300, 200>>, <<600, 400>>, <<1195, 795>>, <<1200, 800>>}

HandleCanvasClickNearEdges ==
    \E pointer \in EdgePointers : canvas.exists /\ handleCanvasClick(pointer)

\* The tools the placement claims are about.
HandleToolSelectOfBoxes ==
    \E toolId \in {"text", "rectangle"} : Rendered /\ handleToolSelect(toolId)

NextPlace ==
    \/ HomeInitialSlideEffect
    \/ HandleResize
    \/ HandleToolSelectOfBoxes
    \/ HandleCanvasClickNearEdges
    \/ ToolRevertFires
    \/ DebouncedSaveFires
    \/ Tick

SpecPlace == Init /\ [][NextPlace]_vars

\* One slide, its canvas, the Save button and the timeouts: an edit, then a
\* save of the presentation before or after the debounced canvas save.
NextSave ==
    \/ HomeInitialSlideEffect
    \/ HandleToolSelectOfBoxes
    \/ HandleCanvasClick
    \/ HandleSavePresentation
    \/ DebouncedSaveFires
    \/ ToolRevertFires
    \/ Tick

SpecSave == Init /\ [][NextSave]_vars

\* The same with the tools for circles and lines.
HandleToolSelectOfRounds ==
    \E toolId \in {"circle", "line"} : Rendered /\ handleToolSelect(toolId)

NextRound ==
    \/ HomeInitialSlideEffect
    \/ HandleResize
    \/ HandleToolSelectOfRounds
    \/ HandleCanvasClickNearEdges
    \/ ToolRevertFires
    \/ DebouncedSaveFires
    \/ Tick

SpecRound == Init /\ [][NextRound]_vars

(***************************************************************************)
(* Image inserts: from a URL, from the file dialog and by drag and drop.   *)
(***************************************************************************)
\* Natural sizes of the decoded image.
NaturalSizes == {<<400, 300>>, <<401, 300>>, <<1600, 300>>, <<200, 600>>}

\* Where an image comes from; a drop has event.nativeEvent.offsetX, offsetY.
ImageSources == {<<"url", 0, 0>>, <<"file", 0, 0>>, <<"drop", 5, 5>>}

\* A scale that takes the larger of the two ratios.
imageScaleToCover(width, height) ==
    IF width > 400 \/ height > 300
    THEN IF 400 * height >= 300 * width THEN <<400, width>> ELSE <<300, height>>
    ELSE <<1, 1>>

\* if (img.width > maxWidth || img.height > maxHeight)
\*     img.scale(Math.min(maxWidth / img.width, maxHeight / img.height))
imageScale(width, height) ==
    IF width > 400 \/ height > 300
    THEN IF 400 * height <= 300 * width THEN <<400, width>> ELSE <<300, height>>
    ELSE <<1, 1>>

\* The image as it is added: at (100, 100), or for a drop centred on the
\* drop point and kept inside the canvas (in whole units).
InsertedImage(cv, pending) ==
    LET scale == imageScale(pending.width, pending.height)
        scaledWidth == (pending.width * scale[1]) \div scale[2]
        scaledHeight == (pending.height * scale[1]) \div scale[2]
        left == IF pending.from = "drop"
                THEN Max(10, Min(pending.x - scaledWidth \div 2, cv.width - scaledWidth - 10))
                ELSE 100
        top == IF pending.from = "drop"
               THEN Max(10, Min(pending.y - scaledHeight \div 2, cv.height - scaledHeight - 10))
               ELSE 100
    IN  [SceneObject("image", left, top, NULL, NULL, 0)
           EXCEPT !.image = [width |-> pending.width, height |-> pending.height,
                             scaleX |-> scale, scaleY |-> scale]]

\* addImageFromUrl, addImageFromFile and handleDrop up to the first await.
InsertImage ==
    \E source \in ImageSources, size \in NaturalSizes :
        /\ canvas.exists
        /\ Len(images) < MaxImages
        /\ images' = Append(images, [startedOn |-> store.currentSlideId, from |-> source[1],
                                     width |-> size[1], height |-> size[2],
                                     x |-> source[2], y |-> source[3]])
        /\ UserEvent
        /\ Did("insertImage", [from |-> source[1]])
        /\ UNCHANGED <<store, now, nextId, canvas, timers, mouseTool, writes, currentShapeFormat>>

\* fabric.FabricImage.fromURL resolves: scale, place, add and select.
ImageInserted ==
    \E i \in 1..Len(images) :
        /\ images' = RemoveAt(images, i)
        /\ IF canvas.exists
           THEN /\ Len(canvas.objects) < MaxObjects
                /\ canvas' = AddAndSelect(canvas, InsertedImage(canvas, images[i]))
                /\ timers' = debouncedSaveCanvasState(timers, store.currentSlideId)
                /\ Len(timers') <= MaxTimers
                /\ writes' = WritesAtMutation
           ELSE UNCHANGED <<canvas, timers, writes>>
        /\ Did("imageInserted", images[i])
        /\ UNCHANGED <<store, now, nextId, used, mouseTool, currentShapeFormat>>

NextImage ==
    \/ HomeInitialSlideEffect
    \/ InsertImage
    \/ ImageInserted
    \/ ImageFailed

SpecImage == Init /\ [][NextImage]_vars

(***************************************************************************)
(* The first slide: Home's effect, Load and New presentation.              *)
(***************************************************************************)
NextFirst ==
    \/ HomeInitialSlideEffect
    \/ HandleAddSlide
    \/ HandleSelectSlide
    \/ HandleDeleteSlide
    \/ HandleLoadPresentation
    \/ HandleNewPresentation
    \/ DebouncedSaveFires
    \/ Tick

SpecFirst == Init /\ [][NextFirst]_vars

\* An effect whose dependencies changed runs after the render.
SpecFirstFair ==
    /\ Init
    /\ [][NextFirst]_vars
    /\ WF_vars(HomeInitialSlideEffect)

(***************************************************************************)
(* Formatting: updateSelectedTextFormat and updateSelectedShapeFormat.     *)
(***************************************************************************)
\* 100 ms, in ticks.
FormatSaveDelay == 1

\* Patches the toolbar sends: one field, or several.
ShapeFormats ==
    {[fill |-> "#FF0000"], [stroke |-> "#00FF00", strokeWidth |-> 5]}

TextFormats ==
    {[fontSize |-> 32], [fontWeight |-> "normal", fontStyle |-> "italic", fill |-> "#0000FF"]}

\* if (format.f !== undefined) obj.set('f', format.f), for the fields named
SetPaint(obj, format, fields) ==
    [obj EXCEPT
       !.fill = IF "fill" \in fields /\ "fill" \in DOMAIN format THEN format.fill ELSE @,
       !.stroke = IF "stroke" \in fields /\ "stroke" \in DOMAIN format THEN format.stroke ELSE @,
       !.strokeWidth = IF "strokeWidth" \in fields /\ "strokeWidth" \in DOMAIN format
                       THEN format.strokeWidth ELSE @]

\* The branches for 'rect' and 'circle' and for 'line'.
SetShapeFormat(obj, format) ==
    IF obj.type \in {"rect", "circle"} THEN SetPaint(obj, format, {"fill", "stroke", "strokeWidth"})
    ELSE IF obj.type = "line" THEN SetPaint(obj, format, {"stroke", "strokeWidth"})
    ELSE obj

\* The patch on the active object: itself, or for a 'group' the objects
\* that forEachObject visits.
SetActiveShapeFormat(obj, format) ==
    IF obj.type = "group"
    THEN [obj EXCEPT !.objects = [k \in 1..Len(obj.objects) |->
                                    SetShapeFormat(obj.objects[k], format)]]
    ELSE SetShapeFormat(obj, format)

\* canvas.getActiveObject(): the one selected object; several selected
\* objects are an ActiveSelection, whose type no branch tests for.
HasActiveObject(cv) == cv.exists /\ cv.active # {}
OneActive(cv) == cv.exists /\ Cardinality(cv.active) = 1
ActiveIndex(cv) == CHOOSE i \in cv.active : TRUE

\* setCurrentShapeFormat(prev => ({ ...prev, ...format }))
MergeFormat(prev, format) ==
    [f \in DOMAIN prev |-> IF f \in DOMAIN format THEN format[f] ELSE prev[f]]

updateSelectedShapeFormat(cv, format) ==
    IF OneActive(cv)
    THEN [cv EXCEPT !.objects[ActiveIndex(cv)] = SetActiveShapeFormat(@, format)]
    ELSE cv

\* The shape controls of the toolbar.  Without an active object the
\* function returns before setCurrentShapeFormat.  The new format makes
\* new add... callbacks, so the mouse-handler effect runs again.
HandleShapeFormatChange ==
    \E format \in ShapeFormats :
        /\ Rendered
        /\ IF HasActiveObject(canvas)
           THEN LET cv == updateSelectedShapeFormat(canvas, format)
                IN  /\ currentShapeFormat' = MergeFormat(currentShapeFormat, format)
                    /\ canvas' = cv
                    /\ mouseTool' = store.selectedTool
                    /\ store' = IF Falsy(store.currentSlideId) THEN store
                                ELSE updateSlide(store,
                                                 [id |-> store.currentSlideId,
                                                  canvasData |-> Serialize(cv),
                                                  thumbnail |-> generateThumbnail(cv)], now)
           ELSE UNCHANGED <<currentShapeFormat, canvas, mouseTool, store>>
        /\ UserEvent
        /\ Did("handleShapeFormatChange", format)
        /\ UNCHANGED <<now, nextId, timers, images, writes>>

IsText(obj) == obj.type \in {"textbox", "i-text", "text"}

\* if (format.f !== undefined) textObject.set('f', format.f)
SetTextFormat(obj, format) ==
    [obj EXCEPT
       !.font = [f \in DOMAIN @ |-> IF f \in DOMAIN format THEN format[f] ELSE @[f]],
       !.fill = IF "fill" \in DOMAIN format THEN format.fill ELSE @]

\* A text patch that is applied to whatever object is active.
updateSelectedTextFormatOfAny(cv, format) ==
    IF OneActive(cv)
    THEN [cv EXCEPT !.objects[ActiveIndex(cv)] = SetTextFormat(@, format)]
    ELSE cv

updateSelectedTextFormat(cv, format) ==
    IF OneActive(cv) /\ IsText(cv.objects[ActiveIndex(cv)])
    THEN [cv EXCEPT !.objects[ActiveIndex(cv)] = SetTextFormat(@, format)]
    ELSE cv

\* setTimeout(() => { saveCanvasState(); }, 100)
FormatSaveTimer(slideId) ==
    [kind |-> "formatSave", rem |-> FormatSaveDelay, slideId |-> slideId, own |-> TRUE]

\* The text controls of the toolbar.
HandleTextFormatChange ==
    \E format \in TextFormats :
        /\ Rendered
        /\ LET cv == updateSelectedTextFormat(canvas, format)
           IN  IF OneActive(canvas) /\ IsText(canvas.objects[ActiveIndex(canvas)])
               THEN /\ canvas' = cv
                    /\ timers' = Append(timers, FormatSaveTimer(store.currentSlideId))
                    /\ Len(timers') <= MaxTimers
               ELSE /\ canvas' = cv
                    /\ timers' = timers
        /\ UserEvent
        /\ Did("handleTextFormatChange", format)
        /\ UNCHANGED <<store, now, nextId, images, mouseTool, writes, currentShapeFormat>>

\* The timeout set by updateSelectedTextFormat runs.
FormatSaveFires ==
    \E i \in 1..Len(timers) : timers[i].kind = "formatSave" /\ SaveTimeoutRuns(i)

\* A scene with a text and a group; the group holds a rectangle, a line, a
\* text and a group with a circle in it.
OneText ==
    [SceneObject("textbox", 100, 100, "#000000", NULL, 1)
       EXCEPT !.font = [fontSize |-> 24, fontWeight |-> "bold",
                        fontStyle |-> "normal", textAlign |-> "left"]]

GroupOf(members) == [SceneObject("group", 300, 300, NULL, NULL, 0) EXCEPT !.objects = members]

OneGroup ==
    GroupOf(<<OneRect, SceneObject("line", 10, 10, NULL, "#2563eb", 3), OneText,
              GroupOf(<<SceneObject("circle", 50, 50, "#000000", "#2563eb", 3)>>)>>)

SceneOfGroup ==
    [fmt |-> "json", version |-> "6", objects |-> <<OneText, OneGroup>>, background |-> "#ffffff"]

\* Documents of the load dialog that pass validation: one with the scene
\* above, and one whose only slide has the empty string as its id.
StyledDocuments ==
    {[name |-> "Deck", slides |-> <<DocSlide("doc-1", <<"Slide 1">>, SceneOfGroup)>>],
     [name |-> "Deck", slides |-> <<DocSlide("", <<"Slide 1">>, SceneOfOne)>>]}

HandleLoadStyledPresentation ==
    \E doc \in StyledDocuments :
        /\ Rendered
        /\ used.loads < MaxLoads
        /\ used.events < MaxEvents
        /\ used' = [used EXCEPT !.loads = @ + 1, !.events = @ + 1]
        /\ LET newStore == loadPresentation(store, doc, now)
           IN  /\ Commit(newStore, canvas, timers)
               /\ writes' = IF newStore.currentSlideId # store.currentSlideId THEN 0 ELSE writes
        /\ Did("handleLoadPresentation", doc)
        /\ UNCHANGED <<now, nextId, images, currentShapeFormat>>

\* Where the focus can be while the user types: the textarea of a text
\* object in edit mode, the rename input of a slide, the name input of the
\* presentation.
TypingTargets == {"hiddenTextarea", "slideNameInput", "presentationNameInput"}

\* The key is pressed while the user types; the event bubbles to the document.
HandleKeyDownWhileTyping ==
    \E target \in TypingTargets :
        /\ canvas.exists
        /\ target = "hiddenTextarea" => (OneActive(canvas) /\ IsText(canvas.objects[ActiveIndex(canvas)]))
        /\ handleKeyDown(target)

NextTyping ==
    \/ HomeInitialSlideEffect
    \/ HandleLoadStyledPresentation
    \/ SelectObjects
    \/ HandleKeyDown
    \/ HandleKeyDownWhileTyping
    \/ DebouncedSaveFires
    \/ DeleteSaveFires
    \/ Tick

SpecTyping == Init /\ [][NextTyping]_vars

NextFormat ==
    \/ HomeInitialSlideEffect
    \/ HandleLoadStyledPresentation
    \/ HandleToolSelectOfAll
    \/ HandleCanvasClick
    \/ SelectObjects
    \/ HandleKeyDown
    \/ HandleShapeFormatChange
    \/ HandleTextFormatChange
    \/ DebouncedSaveFires
    \/ DeleteSaveFires
    \/ FormatSaveFires
    \/ ToolRevertFires
    \/ Tick

SpecFormat == Init /\ [][NextFormat]_vars

\* Time passes and a timeout that is due runs.
SpecFormatFair ==
    /\ Init
    /\ [][NextFormat]_vars
    /\ WF_vars(Tick)
    /\ WF_vars(DebouncedSaveFires)
    /\ WF_vars(DeleteSaveFires)
    /\ WF_vars(FormatSaveFires)
    /\ WF_vars(ToolRevertFires)

(***************************************************************************)
(* Properties of the Document Store.                                       *)
(***************************************************************************)
\* C4: exactly-one-active.  After any sequence of addSlide, deleteSlide and
\* setCurrentSlide, currentSlideId names a slide of slides when slides is
\* non-empty and is null when slides is empty.
ExactlyOneActive ==
    /\ Len(store.slides) > 0 => HasActiveSlide(store)
    /\ Len(store.slides) = 0 => store.currentSlideId = NULL

\* C39: in every reachable store state currentSlideIndex is the index in
\* slides of the slide whose id is currentSlideId, and -1 when
\* currentSlideId is null.
CurrentSlideIndexConsistent ==
    store.currentSlideIndex =
        IF store.currentSlideId = NULL THEN -1
        ELSE findIndex(store.slides, store.currentSlideId)

\* The active slide, second of two, was deleted and the first one took over
\* (currentSlideIndex still holds the index that setCurrentSlide stored).
ActiveDeletedWitness ==
    /\ last.op = "deleteSlide"
    /\ last.payload.id \notin SlideIds(store)
    /\ Len(store.slides) = 1
    /\ store.currentSlideId = store.slides[1].id
    /\ store.currentSlideIndex = 1

\* C7: deleteSlide with more than one slide.  Deleting the active slide at
\* index i activates the slide at index max(0, i-1) of the result; deleting
\* another slide leaves currentSlideId alone; the other slides keep their
\* content and order.
DeleteNeighbourReassignment ==
    [][(/\ last'.op = "deleteSlide"
        /\ Len(store.slides) > 1
        /\ findIndex(store.slides, last'.payload.id) # -1)
       => LET id == last'.payload.id
              i == findIndex(store.slides, id)
          IN  /\ store'.slides = spliceOut(store.slides, i)
              /\ store'.currentSlideId =
                    IF store.currentSlideId = id
                    THEN store'.slides[Max(0, i - 1) + 1].id
                    ELSE store.currentSlideId]_vars

\* C8: setCurrentSlide with an id that names no slide changes nothing.
SetCurrentSlideUnknownId ==
    [][(/\ last'.op = "setCurrentSlide"
        /\ findIndex(store.slides, last'.payload.id) = -1)
       => store' = store]_vars

\* setCurrentSlide was dispatched with an unknown id on a document that has
\* slides.
UnknownIdWitness ==
    /\ last.op = "setCurrentSlide"
    /\ last.payload.id \notin SlideIds(store)
    /\ Len(store.slides) > 1

\* C9: addSlide appends one slide with the empty scene snapshot and a fresh
\* id, activates it iff no slide was active, sets isDirty, and leaves the
\* existing slides and an existing active slide alone.
AddSlideAppends ==
    [][last'.op = "addSlide"
       => LET n == Len(store.slides)
              new == store'.slides[n + 1]
          IN  /\ Len(store'.slides) = n + 1
              /\ SubSeq(store'.slides, 1, n) = store.slides
              /\ new.canvasData = EmptyCanvasData
              /\ new.id \notin SlideIds(store)
              /\ (store'.currentSlideId = new.id) <=> ~HasActiveSlide(store)
              /\ store'.isDirty
              /\ HasActiveSlide(store) => store'.currentSlideId = store.currentSlideId]_vars

\* The slide patch of the payload of an updateSlide.
PatchedFields(slide, payload) ==
    [slide EXCEPT
       !.canvasData = IF "canvasData" \in DOMAIN payload THEN payload.canvasData ELSE @,
       !.name = IF "name" \in DOMAIN payload THEN payload.name ELSE @,
       !.thumbnail = IF "thumbnail" \in DOMAIN payload THEN payload.thumbnail ELSE @]

UpdateSlideFrame(stamp(_)) ==
    last'.op = "updateSlide"
    => LET payload == last'.payload
           i == findIndex(store.slides, payload.id)
       IN  IF i = -1 THEN store' = store
           ELSE /\ Len(store'.slides) = Len(store.slides)
                /\ \A j \in 1..Len(store.slides) :
                      j # i + 1 => store'.slides[j] = store.slides[j]
                /\ store'.slides[i + 1] = stamp(PatchedFields(store.slides[i + 1], payload))
                /\ store'.isDirty =
                      IF {"canvasData", "name"} \cap DOMAIN payload # {} THEN TRUE ELSE store.isDirty
                /\ [store' EXCEPT !.slides = <<>>, !.isDirty = FALSE]
                     = [store EXCEPT !.slides = <<>>, !.isDirty = FALSE]

Unstamped(slide) == slide
StampedNow(slide) == [slide EXCEPT !.updatedAt = now]

\* C10 as claimed: only the fields present in the payload change on the
\* patched slide.
UpdateSlideOnlyPayloadFields == [][UpdateSlideFrame(Unstamped)]_vars

\* C10 amended: the fields present in the payload change and updatedAt is
\* set to the time of the dispatch, on exactly the slide with the given id;
\* isDirty becomes true iff canvasData or name is present; an unknown id
\* changes nothing.
UpdateSlidePatchAndStamp == [][UpdateSlideFrame(StampedNow)]_vars

\* A thumbnail-only patch reached a known slide of a clean document.
ThumbnailPatchWitness ==
    /\ last.op = "updateSlide"
    /\ DOMAIN last.payload = {"id", "thumbnail"}
    /\ last.payload.id \in SlideIds(store)
    /\ ~store.isDirty
    /\ \E i \in 1..Len(store.slides) : store.slides[i].thumbnail = last.payload.thumbnail

\* C5: non-empty.  deleteSlide of the only slide is refused, and the number
\* of slides does not fall from >= 1 to 0 by any action but clearPresentation.
NeverEmptyAgain ==
    [][(Len(store.slides) >= 1 /\ last'.op # "clearPresentation")
       => Len(store'.slides) >= 1]_vars

\* C6: deleting the only slide is an InvalidOperation.  slides,
\* currentSlideId, presentationName and isDirty stay as they are and the
\* store's error is set.
DeleteOnlySlideIsInvalidOperation ==
    [][(/\ last'.op = "deleteSlide"
        /\ Len(store.slides) = 1
        /\ last'.payload.id \in SlideIds(store))
       => /\ store'.slides = store.slides
          /\ store'.currentSlideId = store.currentSlideId
          /\ store'.presentationName = store.presentationName
          /\ store'.isDirty = store.isDirty
          /\ store'.error # NULL]_vars

\* C11: duplicateSlide of the slide at index i inserts one slide at index
\* i+1 that has the source's canvasData and thumbnail, the source's name
\* followed by " (Copy)" and an id no slide had; currentSlideId and the
\* other slides stay as they are; an unknown id changes nothing.
DuplicateSlideInsertsCopy ==
    [][last'.op = "duplicateSlide"
       => LET i == findIndex(store.slides, last'.payload.id)
              source == store.slides[i + 1]
              copy == store'.slides[i + 2]
          IN  IF i = -1 THEN store' = store
              ELSE /\ Len(store'.slides) = Len(store.slides) + 1
                   /\ spliceOut(store'.slides, i + 1) = store.slides
                   /\ copy.canvasData = source.canvasData
                   /\ copy.thumbnail = source.thumbnail
                   /\ copy.name = source.name \o <<" (Copy)">>
                   /\ copy.id \notin SlideIds(store)
                   /\ store'.currentSlideId = store.currentSlideId]_vars

\* The first of two loaded slides was duplicated: its copy stands between
\* the two, and the second slide, which holds a rectangle, is the third.
DuplicatedInTheMiddleWitness ==
    /\ last.op = "duplicateSlide"
    /\ Len(store.slides) = 3
    /\ last.payload.id = store.slides[1].id
    /\ store.slides[2].name = store.slides[1].name \o <<" (Copy)">>
    /\ store.slides[3].canvasData = SceneOfOne

\* C12: reorderSlides with both indices in range moves the slide at
\* fromIndex to toIndex and keeps the order of the others; with an index
\* out of range slides is unchanged; currentSlideId names the same slide
\* in both cases.
ReorderSlidesMovesOne ==
    [][last'.op = "reorderSlides"
       => LET fromIndex == last'.payload.fromIndex
              toIndex == last'.payload.toIndex
              n == Len(store.slides)
          IN  /\ IF fromIndex \in 0..(n - 1) /\ toIndex \in 0..(n - 1)
                 THEN /\ Len(store'.slides) = n
                      /\ store'.slides[toIndex + 1] = store.slides[fromIndex + 1]
                      /\ spliceOut(store'.slides, toIndex) = spliceOut(store.slides, fromIndex)
                 ELSE store'.slides = store.slides
              /\ store'.currentSlideId = store.currentSlideId
              /\ HasActiveSlide(store) => HasActiveSlide(store')]_vars

\* The first of three slides was moved to the end, past the two others.
MovedPastTwoWitness ==
    /\ last.op = "reorderSlides"
    /\ last.payload = [fromIndex |-> 0, toIndex |-> 2]
    /\ Len(store.slides) = 3
    /\ store.slides[1].id = "doc-2"
    /\ store.slides[3].id = ""
    /\ store.currentSlideId = ""

\* C13: loadPresentation installs the payload's slides and name, activates
\* the first loaded slide (none when there is no slide), clears isDirty and
\* error and stamps lastSaved, whatever the state was.
LoadPresentationReplaces ==
    [][last'.op = "loadPresentation"
       => LET doc == last'.payload
          IN  /\ store'.slides = doc.slides
              /\ store'.presentationName = doc.name
              /\ store'.currentSlideId =
                    IF Len(doc.slides) > 0 THEN doc.slides[1].id ELSE NULL
              /\ ~store'.isDirty
              /\ store'.lastSaved = now
              /\ store'.error = NULL]_vars

\* A document of two slides was loaded at time 1 over a document that two
\* addSlide calls had built.
LoadedOverEditsWitness ==
    /\ last.op = "loadPresentation"
    /\ nextId = 3
    /\ Len(store.slides) = 2
    /\ store.lastSaved = 1
    /\ store.presentationName = "Deck"

\* C14: clearPresentation leaves the initial state, whatever the state was,
\* and loadPresentation leaves selectedTool 'select'.
ClearPresentationResets ==
    [][/\ last'.op = "clearPresentation" => store' = initialState
       /\ last'.op = "loadPresentation" => store'.selectedTool = "select"]_vars

\* The document that a save writes: the presentation name and the slides in
\* order, each with its name and canvasData.
DocumentOf(state) ==
    [name |-> state.presentationName,
     slides |-> [i \in 1..Len(state.slides) |->
                    [name |-> state.slides[i].name, canvasData |-> state.slides[i].canvasData]]]

\* C15: isDirty tracks unsaved changes.  In a state that is clean after a
\* markAsSaved or loadPresentation the document is the saved one, so an
\* action that changes the document leaves isDirty true.
DirtyTracksChanges ==
    [][(/\ store.lastSaved # NoTime
        /\ ~store.isDirty
        /\ last'.op \notin {"markAsSaved", "loadPresentation"}
        /\ DocumentOf(store') # DocumentOf(store))
       => store'.isDirty]_vars

(***************************************************************************)
(* Properties of the persistence.                                          *)
(***************************************************************************)
HasOfKind(v, k, kind) == v.t = "object" /\ k \in DOMAIN v.fields /\ v.fields[k].t = kind

WellFormedSlide(v) ==
    /\ \A k \in {"id", "name", "canvasData"} : HasOfKind(v, k, "string")
    /\ \A k \in {"createdAt", "updatedAt"} : HasOfKind(v, k, "number")

WellFormedDocument(v) ==
    /\ HasOfKind(v, "name", "string")
    /\ HasOfKind(v, "slides", "array")
    /\ HasOfKind(v, "version", "string")
    /\ \A i \in 1..Len(v.fields.slides.items) : WellFormedSlide(v.fields.slides.items[i])

\* C16: a parsed document is loaded if and only if its name is a string, its
\* slides an array, its version a string and every slide has a string id,
\* name and canvasData and a numeric createdAt and updatedAt; any other is
\* rejected as a whole: the document in the store stays and an error is set.
ValidationAcceptsExactlyWellFormed ==
    [][(/\ last'.op = "loadFile"
        /\ last'.payload.ext = "json"
        /\ last'.payload.text.t # "malformed")
       => LET parsed == last'.payload.text
          IN  IF WellFormedDocument(parsed)
              THEN store' = loadPresentation(store, LoadPayload(parsed), now)
              ELSE /\ store'.slides = store.slides
                   /\ store'.presentationName = store.presentationName
                   /\ store'.currentSlideId = store.currentSlideId
                   /\ store'.error # NULL]_vars

\* A document whose name, slides and version are as required and one of
\* whose slides is not was refused over a document of two slides.
RefusedForOneSlideWitness ==
    /\ last.op = "loadFile"
    /\ last.payload.ext = "json"
    /\ HeaderCheck(last.payload.text)
    /\ ~WellFormedDocument(last.payload.text)
    /\ WellFormedSlide(last.payload.text.fields.slides.items[1])
    /\ store.error # NULL
    /\ Len(store.slides) = 2

\* C17: a load that fails leaves slides, currentSlideId, presentationName,
\* isDirty and lastSaved as they were; only error is set.
RejectedLoadLeavesStore ==
    [][(last'.op = "loadFile" /\ ~FileHandlersLoadPresentation(last'.payload).ok)
       => /\ store' = [store EXCEPT !.error = store'.error]
          /\ store'.error = "Failed to load presentation"]_vars

\* The dialog was closed without a file while a dirty document of two
\* slides was open.
NoFileOverDirtyWitness ==
    /\ last.op = "loadFile"
    /\ last.payload.ext = "none"
    /\ store.error = "Failed to load presentation"
    /\ store.isDirty
    /\ Len(store.slides) = 2

ValidSnapshot(canvasData) == canvasData.fmt = "json" /\ AllKnown(canvasData.objects)

\* C20: every slide's canvasData is a valid serialization of a scene graph.
SnapshotsAreScenes ==
    \A i \in 1..Len(store.slides) : ValidSnapshot(store.slides[i].canvasData)

\* C19: corrupt scene recovery.  When a slide whose canvasData does not
\* deserialize becomes the active slide, the switch takes place, the live
\* scene is empty and no save is armed; a selection in the slide list
\* leaves the slides of the store as they are.
CorruptSceneRecovery ==
    [][(/\ store'.currentSlideId # store.currentSlideId
        /\ HasActiveSlide(store')
        /\ ~ValidSnapshot(CurrentSlideOf(store').canvasData))
       => /\ canvas'.exists
          /\ canvas'.objects = <<>>
          /\ ~HasOwnSave(timers')
          /\ last'.op = "handleSelectSlide"
                => /\ store'.currentSlideId = last'.payload.id
                   /\ store'.slides = store.slides]_vars

\* The slide whose scene holds an object of an unknown kind was selected in
\* the slide list.
UnknownKindSelectedWitness ==
    /\ last.op = "handleSelectSlide"
    /\ HasActiveSlide(store)
    /\ store.currentSlideId = last.payload.id
    /\ CurrentSlideOf(store).canvasData = SceneOfUnknown
    /\ canvas.exists
    /\ canvas.objects = <<>>

\* The ids of the slides in order.
IdsOf(state) == [i \in 1..Len(state.slides) |-> state.slides[i].id]

\* C21: slide ids are unique and stable.  After every step the ids of the
\* slides are pairwise distinct, and a save of the scene or a selection in
\* the slide list changes the id of no slide.
SlideIdsUniqueAndStable ==
    [][/\ \A i, j \in 1..Len(store'.slides) :
              i # j => store'.slides[i].id # store'.slides[j].id
       /\ last'.op \in {"save", "handleSelectSlide"} => IdsOf(store') = IdsOf(store)]_vars

(***************************************************************************)
(* Tool Interpreter.                                                       *)
(***************************************************************************)
\* C22: with selectedTool 'select' or 'image' a pointer-down creates no
\* object and leaves selectedTool as it is; picking the image tool in the
\* toolbar changes nothing in the store, and 'image' is never the
\* selectedTool.
NonCreatingTools ==
    [][/\ (last'.op = "handleCanvasClick" /\ store.selectedTool \in {"select", "image"})
            => (canvas'.objects = canvas.objects /\ store'.selectedTool = store.selectedTool)
       /\ (last'.op = "handleToolSelect" /\ last'.payload.tool = "image") => store' = store
       /\ store'.selectedTool # "image"]_vars

\* A pointer-down in select mode on a slide that already has an object.
SelectModeClickWitness ==
    /\ last.op = "handleCanvasClick"
    /\ store.selectedTool = "select"
    /\ mouseTool = "select"
    /\ Len(canvas.objects) = 1

\* The class of the object each creating tool makes.
KindOf(tool) ==
    CASE tool = "text" -> "textbox"
      [] tool = "rectangle" -> "rect"
      [] tool = "circle" -> "circle"
      [] tool = "line" -> "line"

\* C23: with selectedTool one of text, rectangle, circle, line, a
\* pointer-down inside the canvas bounds adds exactly one object of that
\* kind to the live scene, on whichever slide is active; a pointer-down
\* outside the bounds adds nothing.
PointerDownCreatesOne ==
    [][(last'.op = "handleCanvasClick" /\ store.selectedTool \in CreatingTools) =>
        LET x == last'.payload.x
            y == last'.payload.y
            n == Len(canvas.objects)
        IN  IF x >= 0 /\ y >= 0 /\ x <= canvas.width /\ y <= canvas.height
            THEN /\ Len(canvas'.objects) = n + 1
                 /\ SubSeq(canvas'.objects, 1, n) = canvas.objects
                 /\ canvas'.objects[n + 1].type = KindOf(store.selectedTool)
            ELSE canvas'.objects = canvas.objects]_vars

RevertJustSet == \E i \in 1..Len(timers) : timers[i].kind = "revert" /\ timers[i].rem = RevertDelay

\* C24: after an object is created by a tool, selectedTool becomes
\* 'select', unless the user picks another creating tool first.
ToolRevertsToSelect ==
    (last.op = "handleCanvasClick" /\ RevertJustSet)
        ~> (\/ store.selectedTool = "select"
            \/ (last.op = "handleToolSelect" /\ last.payload.tool \in CreatingTools))

\* The revert timeout has run after a creation.
RevertedWitness ==
    /\ last.op = "revert"
    /\ store.selectedTool = "select"
    /\ Len(canvas.objects) > 0

(***************************************************************************)
(* Placement.                                                              *)
(***************************************************************************)
\* C30: on a canvas of width W >= 220 and height H >= 100 a new rectangle
\* (120 x 80) has 10 <= left <= W - 130 and 10 <= top <= H - 90, a new text
\* box (200 x 30) has 10 <= left <= W - 210 and 10 <= top <= H - 40, and
\* each is centred on the pointer when that position is within these
\* bounds.
PlacementWithinBounds ==
    [][(/\ last'.op = "handleCanvasClick"
        /\ Len(canvas'.objects) = Len(canvas.objects) + 1
        /\ canvas.width >= 220
        /\ canvas.height >= 100) =>
        LET o == canvas'.objects[Len(canvas'.objects)]
            x == last'.payload.x
            y == last'.payload.y
            W == canvas.width
            H == canvas.height
            Fits(v, hi) == 10 <= v /\ v <= hi
        IN  /\ o.type = "rect" =>
                  /\ Fits(o.left, W - 130)
                  /\ Fits(o.top, H - 90)
                  /\ (Fits(x - 60, W - 130) /\ Fits(y - 40, H - 90))
                        => (o.left = x - 60 /\ o.top = y - 40)
            /\ o.type = "textbox" =>
                  /\ Fits(o.left, W - 210)
                  /\ Fits(o.top, H - 40)
                  /\ (Fits(x - 100, W - 210) /\ Fits(y - 15, H - 40))
                        => (o.left = x - 100 /\ o.top = y - 15)]_vars

\* C31: on a canvas of width W and height H (at least 220 x 100, as for
\* rectangles) a new circle (radius 40, box 80 x 80 from left, top) and a
\* new line (length 100) lie inside the canvas with a margin of 10 on every
\* side, and are centred on the pointer when that placement keeps the margin.
RoundPlacementWithinBounds ==
    [][(/\ last'.op = "handleCanvasClick"
        /\ Len(canvas'.objects) = Len(canvas.objects) + 1
        /\ canvas.width >= 220
        /\ canvas.height >= 100) =>
        LET o == canvas'.objects[Len(canvas'.objects)]
            x == last'.payload.x
            y == last'.payload.y
            W == canvas.width
            H == canvas.height
            Fits(v, hi) == 10 <= v /\ v <= hi
        IN  /\ o.type = "circle" =>
                  /\ Fits(o.left, W - 90)
                  /\ Fits(o.top, H - 90)
                  /\ (Fits(x - 40, W - 90) /\ Fits(y - 40, H - 90))
                        => (o.left = x - 40 /\ o.top = y - 40)
            /\ o.type = "line" =>
                  /\ Fits(o.left, W - 110)
                  /\ Fits(o.top, H - 10)
                  /\ (Fits(x - 50, W - 110) /\ Fits(y, H - 10))
                        => (o.left = x - 50 /\ o.top = y)]_vars

\* The rectangle tool used at (5, 5) on the canvas of 1200 x 800.
CornerRectangleWitness ==
    /\ last.op = "handleCanvasClick"
    /\ last.payload = [x |-> 5, y |-> 5]
    /\ canvas.width = 1200 /\ canvas.height = 800
    /\ Len(canvas.objects) = 1
    /\ canvas.objects[1].type = "rect"
    /\ canvas.objects[1].left = 10 /\ canvas.objects[1].top = 10

(***************************************************************************)
(* The Delete key.                                                         *)
(***************************************************************************)
\* The j-th object that is not selected.
NthUnselected(cv, j) ==
    CHOOSE i \in 1..Len(cv.objects) :
        i \notin cv.active /\ Cardinality({m \in 1..i : m \notin cv.active}) = j

\* C33: Delete or Backspace with k >= 1 selected objects removes exactly
\* those k objects and clears the selection, every other object stays as it
\* is and in its order; with nothing selected the scene does not change.
\* The key press itself never changes the store.
DeleteRemovesSelection ==
    [][(last'.op = "handleKeyDown" /\ last'.payload.target = "body") =>
        /\ store' = store
        /\ IF canvas.active # {}
           THEN /\ Len(canvas'.objects) = Len(canvas.objects) - Cardinality(canvas.active)
                /\ \A j \in 1..Len(canvas'.objects) :
                       canvas'.objects[j] = canvas.objects[NthUnselected(canvas, j)]
                /\ canvas'.active = {}
           ELSE canvas' = canvas]_vars

\* The first of two objects was selected and removed; the other remains.
DeletedOneOfTwoWitness ==
    /\ last.op = "handleKeyDown"
    /\ last.payload.removed = {1}
    /\ last.payload.target = "body"
    /\ Len(canvas.objects) = 1
    /\ canvas.objects[1].type = "group"

\* C40: a Delete or Backspace key press made while a text object is being
\* edited or while the focus is in the slide-rename or presentation-name
\* input removes no object from the scene, whatever is selected.
TypingDeletesNothing ==
    [][(last'.op = "handleKeyDown" /\ last'.payload.target \in TypingTargets)
        => canvas'.objects = canvas.objects]_vars

(***************************************************************************)
(* Writes of the canvas.                                                   *)
(***************************************************************************)
\* C34: every updateSlide write issued by a timeout of the canvas goes to
\* the slide whose scene is live: the slide the timeout was armed for is
\* the active slide when the live scene is serialized into it.
NoCrossSlideWrite ==
    [][(last'.op \in {"save", "deleteSave", "formatSave"} /\ store' # store)
        => last'.payload.slideId = store.currentSlideId]_vars

\* C35: after every accepted loadPresentation the live scene is the
\* deserialization of the canvasData of the slide that is active then, also
\* when that slide has the id of the slide that was active before.
LiveSceneFollowsLoad ==
    [][(last'.op = "handleLoadPresentation" /\ HasActiveSlide(store')) =>
        LET loaded == LoadSlide(CurrentSlideOf(store').canvasData)
        IN  /\ canvas'.exists
            /\ canvas'.objects = loaded.objects
            /\ canvas'.background = loaded.background]_vars

\* C36: whenever a save completes and markAsSaved runs, the canvasData
\* that the file holds for the active slide describes the live scene of
\* that moment (its objects and its background), also inside the debounce
\* window of a mutation.
SaveIsNotStale ==
    [][(/\ last'.op = "handleSavePresentation"
        /\ last'.payload.saved
        /\ canvas.exists
        /\ HasActiveSlide(store)) =>
        LET file == saveAsJSON(store.presentationName, store.slides, now)
            k == findIndex(store.slides, store.currentSlideId) + 1
            written == LoadSlide(Get(Get(file, "slides").items[k], "canvasData").s)
        IN  /\ ~store'.isDirty
            /\ written.objects = canvas.objects
            /\ written.background = canvas.background]_vars

\* C37: the delayed revert to 'select' does not override a later choice of
\* the user: when the user picked a tool after the creation that armed the
\* timeout, selectedTool became that tool, and the timeout runs next,
\* selectedTool stays that tool.
RevertKeepsLaterChoice ==
    [][(/\ last'.op = "revert"
        /\ last.op = "handleToolSelect"
        /\ store.selectedTool = last.payload.tool)
        => store'.selectedTool = last.payload.tool]_vars

\* C38: activating a slide is not an edit: where the user only adds,
\* selects and deletes slides and loads or clears presentations and never
\* touches a canvas, a canvas save that runs leaves every slide's
\* canvasData and updatedAt, and isDirty, as they were.
ActivationIsNotAnEdit ==
    [][last'.op = "save" =>
        /\ store'.slides = store.slides
        /\ store'.isDirty = store.isDirty]_vars

(***************************************************************************)
(* Image inserts.                                                          *)
(***************************************************************************)
\* C32: an image of natural size w x h inserted from a URL, from the file
\* dialog or by a drop is scaled by one factor for both axes; when w > 400
\* or h > 300 that factor is min(400 / w, 300 / h), so the scaled width is
\* at most 400 and the scaled height at most 300; otherwise it is 1.
ImageScaling ==
    [][(last'.op = "imageInserted" /\ canvas.exists) =>
        LET o == canvas'.objects[Len(canvas'.objects)]
            w == o.image.width
            h == o.image.height
            n == o.image.scaleX[1]
            d == o.image.scaleX[2]
        IN  /\ Len(canvas'.objects) = Len(canvas.objects) + 1
            /\ o.type = "image"
            /\ w = last'.payload.width /\ h = last'.payload.height
            /\ o.image.scaleY[1] * d = n * o.image.scaleY[2]
            /\ IF w > 400 \/ h > 300
               THEN /\ w * n <= 400 * d
                    /\ h * n <= 300 * d
                    /\ w * n = 400 * d \/ h * n = 300 * d
               ELSE n = d]_vars

\* A dropped image one unit wider than the limit has been scaled.
DroppedImageScaledWitness ==
    /\ last.op = "imageInserted"
    /\ last.payload.from = "drop"
    /\ last.payload.width = 401
    /\ Len(canvas.objects) = 1
    /\ canvas.objects[1].image.scaleX = <<400, 401>>

(***************************************************************************)
(* The first slide.                                                        *)
(***************************************************************************)
OnlySlide1Active ==
    /\ Len(store.slides) = 1
    /\ store.slides[1].name = <<"Slide 1">>
    /\ store.currentSlideId = store.slides[1].id

\* C29: whenever the document has no slide (at startup, after a load of a
\* document without slides) a slide named 'Slide 1' is added and is the
\* active slide; right after 'New presentation' the document has exactly
\* one slide, named 'Slide 1', and it is active.
AutomaticFirstSlide ==
    /\ (Len(store.slides) = 0 /\ nextId <= MaxGen) ~> OnlySlide1Active
    /\ [][(last'.op = "handleNewPresentation" /\ last'.payload.confirmed)
            => (Len(store'.slides) = 1
                /\ store'.slides[1].name = <<"Slide 1">>
                /\ store'.currentSlideId = store'.slides[1].id)]_vars

\* The effect has added 'Slide 1' after a document without slides was loaded.
FirstSlideAfterEmptyLoadWitness ==
    /\ last.op = "homeInitialSlide"
    /\ used.loads = 1
    /\ OnlySlide1Active

(***************************************************************************)
(* Formatting.                                                             *)
(***************************************************************************)
\* C25: the current shape format starts as '#000000', '#2563eb', 3; every
\* shape patch is merged into it, whether or not an object is selected; a
\* rectangle or circle created afterwards carries its fill, stroke and
\* strokeWidth, a line its stroke and strokeWidth.
CurrentShapeFormatFollowsPatches ==
    [][/\ last.op = "init" => currentShapeFormat = DefaultShapeFormat
       /\ last'.op = "handleShapeFormatChange"
            => currentShapeFormat' = MergeFormat(currentShapeFormat, last'.payload)
       /\ (last'.op = "handleCanvasClick" /\ Len(canvas'.objects) = Len(canvas.objects) + 1)
            => LET o == canvas'.objects[Len(canvas'.objects)]
               IN  /\ o.type \in {"rect", "circle"} =>
                         /\ o.fill = currentShapeFormat.fill
                         /\ o.stroke = currentShapeFormat.stroke
                         /\ o.strokeWidth = currentShapeFormat.strokeWidth
                   /\ o.type = "line" =>
                         /\ o.stroke = currentShapeFormat.stroke
                         /\ o.strokeWidth = currentShapeFormat.strokeWidth]_vars

\* The value a field has after a patch: the patch's if it is present.
Patched(format, field, old) == IF field \in DOMAIN format THEN format[field] ELSE old

RECURSIVE SetShapeFormatDeep(_, _)
SetShapeFormatDeep(obj, format) ==
    IF obj.type = "group"
    THEN [obj EXCEPT !.objects = [k \in 1..Len(obj.objects) |->
                                    SetShapeFormatDeep(obj.objects[k], format)]]
    ELSE SetShapeFormat(obj, format)


\* C27: a shape patch on the selected object sets fill, stroke and
\* strokeWidth of a rectangle or circle, stroke and strokeWidth of a line,
\* and in a group does so for every such member at every nesting depth;
\* texts and images are not changed.
ShapePatchReachesEveryMember ==
    [][(last'.op = "handleShapeFormatChange" /\ OneActive(canvas)) =>
        canvas'.objects =
            [canvas.objects EXCEPT ![ActiveIndex(canvas)] = SetShapeFormatDeep(@, last'.payload)]]_vars

Synced ==
    /\ canvas.exists
    /\ HasActiveSlide(store)
    /\ CurrentSlideOf(store).canvasData = Serialize(canvas)

FormatSaveJustSet ==
    \E i \in 1..Len(timers) : timers[i].kind = "formatSave" /\ timers[i].rem = FormatSaveDelay

\* The state right after a mutation of the live scene.
Mutated ==
    \/ last.op = "handleCanvasClick" /\ RevertJustSet
    \/ last.op = "handleKeyDown" /\ last.payload.removed # {}
    \/ last.op = "handleTextFormatChange" /\ FormatSaveJustSet
    \/ /\ last.op = "handleShapeFormatChange"
       /\ OneActive(canvas)
       /\ canvas.objects[ActiveIndex(canvas)].type \in {"rect", "circle", "line", "group"}

\* C28: after a mutation of the live scene (an object added or removed, a
\* text or shape format applied) the stored canvasData of the active slide
\* becomes the serialization of the live scene, unless the active slide is
\* switched first.
EventualPersistence ==
    Mutated ~> (Synced \/ last.op = "handleLoadPresentation")

(***************************************************************************)
(* Properties of the scene synchronisation.                                *)
(***************************************************************************)
StoredCanvasData(state, slideId) == state.slides[findIndex(state.slides, slideId) + 1].canvasData

\* C1: flush-on-switch.  When the active slide changes while the debounced
\* save of the live scene is pending, and the slide that was active is still
\* in the document, its stored canvasData is the serialization of the scene
\* that is torn down.
FlushOnSwitch ==
    [][(/\ canvas.exists
        /\ HasOwnSave(timers)
        /\ store'.currentSlideId # store.currentSlideId
        /\ store.currentSlideId \in SlideIds(store'))
       => StoredCanvasData(store', store.currentSlideId) = Serialize(canvas)]_vars

\* C2: debounce coalescing.  When the debounce timer of the live canvas
\* runs, its write is the only updateSlide write of the window and carries
\* the serialization of the live scene.
DebounceCoalescing ==
    [][(last'.op = "save" /\ last'.payload.own)
       => /\ writes' = 1
          /\ StoredCanvasData(store', store.currentSlideId) = Serialize(canvas)]_vars

\* C3: a stale image insert is discarded.  An image whose load completes
\* while another slide is active than the one that requested it changes
\* neither the live scene nor the store.
StaleImageDiscarded ==
    [][(last'.op = "imageLoaded" /\ last'.payload.startedOn # store.currentSlideId)
       => canvas' = canvas /\ store' = store]_vars

====
